---- MODULE Spec2Model ----
(***************************************************************************)
(* Conversation / tool-orchestration core of lark-mcp-bot:                 *)
(* LarkMCPBot (bot/index.ts) with the in-memory ConversationStorage.       *)
(* One handler invocation is a process that advances from one await to the *)
(* next; the clock, the LLM, the remote tool handler, the store's failures *)
(* and the message-send operation are the environment.                     *)
(***************************************************************************)
EXTENDS Integers, Sequences, FiniteSets, TLC

\* ------------------------------------------------------------------------
\* Bounds of the model (not program constants)
\* ------------------------------------------------------------------------
MaxCycles == 1          \* handler invocations started in one behaviour
MaxTicks == 1           \* clock advances in one behaviour
LongCalls == 15         \* length of the long tool-call list the LLM may return
MaxRetriesBound == 4    \* largest maxRetries handed to sendMessageWithRetry
MaxDedupCalls == 4      \* direct shouldProcessMessage calls in one behaviour
MaxDedupTicks == 3      \* clock advances between direct dedup calls
MaxChatCycles == 2      \* invocations started in one two-chat or keyed-event behaviour
MaxTextLen == 5         \* tokens of the longest message text whose mentions are stripped
MaxStoreCalls == 3      \* direct calls of the store in one behaviour
MaxStoreTicks == 2      \* clock advances between direct calls of the store
MaxCatalogLen == 3      \* tools in the longest catalog that is filtered
MaxListLen == 2         \* entries of the longest allow-list and deny-list

\* ------------------------------------------------------------------------
\* Program constants
\* ------------------------------------------------------------------------
REDIS_EX_SECONDS == 3600
CONVERSATION_TTL_MS == 60 * 60 * 1000
MESSAGE_DEDUP_TTL_MS == 5 * 60 * 1000
\* the cap of the bot that keeps its conversations in its own maps
MAX_CONVERSATIONS == 1000
FirstContextWindow == 10
FollowUpContextWindow == 20
HistoryCapNoTools == 20
HistoryCapWithTools == 30
DefaultMaxRetries == 3
BackoffBaseMs == 1000

\* ------------------------------------------------------------------------
\* Value universes
\* ------------------------------------------------------------------------
Procs == {1, 2}
Chats == {"c1", "c2"}
Undefined == "undefined"
StartTime == 1000
\* exactly the dedup window; just beyond the conversation TTL
TickSteps == {MESSAGE_DEDUP_TTL_MS, CONVERSATION_TTL_MS + 1}
FineTickSteps == {1, MESSAGE_DEDUP_TTL_MS - 1, MESSAGE_DEDUP_TTL_MS}

\* Text is a sequence of lexical tokens: the literal "@_user_", digits,
\* whitespace and other characters.
Digits == {"1", "2"}
Whitespace == {" "}
MentionLiteral == "@_user_"

EmptyMap == [k \in {} |-> 0]

MapSet(m, k, v) == [x \in (DOMAIN m) \cup {k} |-> IF x = k THEN v ELSE m[x]]

MapDelete(m, ks) == [x \in (DOMAIN m) \ ks |-> m[x]]

\* ------------------------------------------------------------------------
\* Dedup guard: LarkMCPBot.shouldProcessMessage
\* ------------------------------------------------------------------------
\* faulty variant: expired entries are never swept
DedupSweepSkipped(map, t) == map

\* the lazy sweep of expired entries
DedupSweep(map, t) ==
  MapDelete(map, {id \in DOMAIN map : t - map[id] > MESSAGE_DEDUP_TTL_MS})

\* faulty variant: refreshes the recorded time when it rejects a duplicate
ShouldProcessMessageRefreshing(map, messageId, t) ==
  IF messageId = Undefined \/ messageId = ""
  THEN [ret |-> TRUE, map |-> map]
  ELSE LET swept == DedupSweep(map, t)
       IN IF messageId \in DOMAIN swept /\ swept[messageId] # 0
             /\ t - swept[messageId] <= MESSAGE_DEDUP_TTL_MS
          THEN [ret |-> FALSE, map |-> MapSet(swept, messageId, t)]
          ELSE [ret |-> TRUE, map |-> MapSet(swept, messageId, t)]

\* faulty variant: records the id and lets every delivery through
ShouldProcessMessageUnchecked(map, messageId, t) ==
  IF messageId = Undefined \/ messageId = ""
  THEN [ret |-> TRUE, map |-> map]
  ELSE [ret |-> TRUE, map |-> MapSet(DedupSweep(map, t), messageId, t)]

\* faulty variant: only an absent id is let through unrecorded; the empty
\* string is treated as an id
ShouldProcessMessageEmptyIsId(map, messageId, t) ==
  IF messageId = Undefined
  THEN [ret |-> TRUE, map |-> map]
  ELSE LET swept == DedupSweep(map, t)
       IN IF messageId \in DOMAIN swept /\ swept[messageId] # 0
             /\ t - swept[messageId] <= MESSAGE_DEDUP_TTL_MS
          THEN [ret |-> FALSE, map |-> swept]
          ELSE [ret |-> TRUE, map |-> MapSet(swept, messageId, t)]

\* result and new map of shouldProcessMessage(messageId) called at time t
ShouldProcessMessage(map, messageId, t) ==
  IF messageId = Undefined \/ messageId = ""
  THEN [ret |-> TRUE, map |-> map]
  ELSE LET swept == DedupSweep(map, t)
       IN IF messageId \in DOMAIN swept /\ swept[messageId] # 0
             /\ t - swept[messageId] <= MESSAGE_DEDUP_TTL_MS
          THEN [ret |-> FALSE, map |-> swept]
          ELSE [ret |-> TRUE, map |-> MapSet(swept, messageId, t)]

\* ------------------------------------------------------------------------
\* Pure helpers of handleMessageReceive
\* ------------------------------------------------------------------------
\* history.slice(-n)
LastN(s, n) == IF Len(s) <= n THEN s ELSE SubSeq(s, Len(s) - n + 1, Len(s))

\* faulty variant: keeps one entry too many
TrimHistoryOffByOne(h, cap) == IF Len(h) > cap THEN SubSeq(h, Len(h) - cap, Len(h)) ELSE h

\* faulty variant: drops the newest entries instead of the oldest
TrimHistoryNewest(h, cap) == IF Len(h) > cap THEN SubSeq(h, 1, cap) ELSE h

\* if (history.length > cap) history.splice(0, history.length - cap)
TrimHistory(h, cap) == IF Len(h) > cap THEN SubSeq(h, Len(h) - cap + 1, Len(h)) ELSE h

\* messageText.trim() === ''
IsBlank(text) == \A i \in 1..Len(text) : text[i] \in Whitespace

\* faulty variant: forgets the trim
IsEmptyInputUntrimmed(messageText) == messageText = <<>>

\* if (!messageText || messageText.trim() === '')
IsEmptyInput(messageText) == messageText = <<>> \/ IsBlank(messageText)

\* Inbound message content: a JSON envelope with a text field, a JSON value
\* without one, a raw string JSON.parse rejects, or no content at all.
ParseContent(content) ==
  CASE content.kind = "json" -> content.text
    [] content.kind = "json_notext" -> <<>>
    [] content.kind = "raw" -> content.text
    [] OTHER -> <<>>

RECURSIVE SkipWhile(_, _, _)
\* first index >= i of text whose token is outside set (Len(text) + 1 if none)
SkipWhile(text, i, set) ==
  IF i <= Len(text) /\ text[i] \in set THEN SkipWhile(text, i + 1, set) ELSE i

RECURSIVE StripMentions(_, _)
\* messageText.replace(/@_user_\d+\s*/g, '') from index i on
StripMentions(text, i) ==
  IF i > Len(text) THEN <<>>
  ELSE IF text[i] = MentionLiteral /\ i < Len(text) /\ text[i + 1] \in Digits
       THEN StripMentions(text, SkipWhile(text, SkipWhile(text, i + 1, Digits), Whitespace))
       ELSE <<text[i]>> \o StripMentions(text, i + 1)

\* faulty variant: removes the literal of a mention only
CleanTextLiteralOnly(messageText) ==
  SelectSeq(messageText, LAMBDA tok : tok # MentionLiteral)

CleanText(messageText) == StripMentions(messageText, 1)

FallbackText == "no_response_generated"

\* faulty variant: no fallback for an empty answer
ContentWithoutFallback(content) == content

\* responseMessage.content || fallback
ContentOrFallback(content) == IF content = "" THEN FallbackText ELSE content

\* ------------------------------------------------------------------------
\* Errors: class, the markers its message contains, business code, cause
\* ------------------------------------------------------------------------
\* cause is <<>> or the one-element sequence holding the underlying error
NoError == [class |-> "none", markers |-> {}, code |-> "", cause |-> <<>>]

PlainError(markers) == [class |-> "Error", markers |-> markers, code |-> "", cause |-> <<>>]

ApiError(code, markers) == [class |-> "Error", markers |-> markers, code |-> code, cause |-> <<>>]

\* err.message.toLowerCase(), on the markers a message may contain
LowerCased(markers) == {IF m = "Rate Limit" THEN "rate limit" ELSE m : m \in markers}

\* getApiBusinessErrorCode / mapApiErrorToBotError: the class of the mapped
\* error, "none" when the code maps to nothing
MapApiErrorToBotError(error) ==
  CASE error.code \in {"1113", "1308", "1309"} -> "ResourcePackageError"
    [] error.code \in {"1302", "1303", "1305"} -> "APIRateLimitError"
    [] OTHER -> "none"

\* the error thrown by the catch block around an LLM call
LLMCallError(error) ==
  LET mapped == MapApiErrorToBotError(error)
  IN IF mapped # "none"
     THEN [class |-> mapped, markers |-> {}, code |-> "", cause |-> <<error>>]
     ELSE IF "429" \in error.markers \/ LowerCased(error.markers) \cap {"rate limit"} # {}
          THEN [class |-> "APIRateLimitError", markers |-> {"rate limit"}, code |-> "",
                cause |-> <<error>>]
          ELSE [class |-> "LLMError", markers |-> error.markers, code |-> "",
                cause |-> <<error>>]

LarkBotErrorClasses ==
  {"LLMError", "ToolExecutionError", "LarkAPIError", "APIRateLimitError",
   "ResourcePackageError", "ValidationError"}

\* APIRateLimitError.toUserMessage: the class is imported from types.js but
\* its source is not available; the rate-limited apology, as specified
APIRateLimitErrorUserMessage == "apology_rate_limit"

\* toUserMessage of each error class (statusCode is never set by the bot)
ToUserMessage(class) ==
  CASE class = "LLMError" -> "apology_llm"
    [] class = "LarkAPIError" -> "apology_lark_api"
    [] class = "ResourcePackageError" -> "apology_quota"
    [] class = "APIRateLimitError" -> APIRateLimitErrorUserMessage
    [] class = "ToolExecutionError" -> "apology_tool"
    [] class = "ValidationError" -> "apology_validation"
    [] OTHER -> "apology_generic"

\* faulty variant: the catch block does not consult the error class
UserErrorMessageIgnoringClass(error) ==
  IF "rate limit" \in error.markers THEN "apology_rate_limit" ELSE "apology_generic"

\* the apology chosen by the top-level catch block
UserErrorMessage(error) ==
  IF error.class \in LarkBotErrorClasses THEN ToUserMessage(error.class)
  ELSE IF "rate limit" \in error.markers THEN "apology_rate_limit"
  ELSE "apology_generic"

\* ------------------------------------------------------------------------
\* Reply sender: classification and backoff
\* ------------------------------------------------------------------------
\* isRetryableError: the substring tests in the order of the code
IsRetryableError(error) ==
  IF error.markers \cap {"timeout", "econnreset", "enotfound", "500", "502", "503", "504"} # {}
  THEN TRUE
  ELSE IF error.markers \cap {"400", "401", "403", "404"} # {}
       THEN FALSE
       ELSE TRUE

\* faulty variant: drops the negation of the classification
ShouldAbortInverted(isRetryable, attempt, maxRetries) == isRetryable \/ attempt >= maxRetries

\* faulty variant: ignores the classification
ShouldAbortIgnoringClass(isRetryable, attempt, maxRetries) == attempt >= maxRetries

\* if (!isRetryable || attempt >= maxRetries) break
ShouldAbort(isRetryable, attempt, maxRetries) == ~isRetryable \/ attempt >= maxRetries

\* faulty variant: stops one attempt early
AttemptAllowedOffByOne(attempt, maxRetries) == attempt < maxRetries

\* for (let attempt = 1; attempt <= maxRetries; attempt++)
AttemptAllowed(attempt, maxRetries) == attempt <= maxRetries

\* Math.pow(2, attempt - 1) * 1000
BackoffDelay(attempt) == (2 ^ (attempt - 1)) * BackoffBaseMs

\* ------------------------------------------------------------------------
\* Tool catalog and Tool Executor
\* ------------------------------------------------------------------------
\* mcpTool.getTools(): the registered tools, named after the way the remote
\* operation behind each one answers
\* tool names and prefixes as sequences of characters
StartsWith(name, prefix) ==
  Len(prefix) <= Len(name) /\ SubSeq(name, 1, Len(prefix)) = prefix

Includes(list, x) == \E i \in 1..Len(list) : list[i] = x

\* faulty variant: an allow-list entry has to be the whole name
FilterMcpToolsExact(tools, enabledToolPrefixes, disabledTools) ==
  SelectSeq(tools, LAMBDA tool :
    /\ Len(enabledToolPrefixes) > 0 => Includes(enabledToolPrefixes, tool)
    /\ ~Includes(disabledTools, tool))

FilterMcpTools(tools, enabledToolPrefixes, disabledTools) ==
  LET byPrefix ==
        IF Len(enabledToolPrefixes) > 0
        THEN SelectSeq(tools, LAMBDA tool :
               \E i \in 1..Len(enabledToolPrefixes) :
                  StartsWith(tool, enabledToolPrefixes[i]))
        ELSE tools
  IN IF Len(disabledTools) > 0
     THEN SelectSeq(byPrefix, LAMBDA tool : ~Includes(disabledTools, tool))
     ELSE byPrefix

\* the function definitions built from the filtered catalog; the schema of a
\* tool is not modelled
ConvertMcpToolsToFunctions(allMcpTools, enabledToolPrefixes, disabledTools) ==
  LET mcpTools == FilterMcpTools(allMcpTools, enabledToolPrefixes, disabledTools)
  IN [i \in 1..Len(mcpTools) |-> [type |-> "function", name |-> mcpTools[i]]]

\* a Redis that holds no key: history and timestamp keys map a chat id to the
\* stored value and the time the key expires, chatids is the set under 'chatids'
NoRedis == [history |-> EmptyMap, timestamp |-> EmptyMap, chatids |-> {}]

NoToolFilter ==
  [tools |-> <<>>, enabledToolPrefixes |-> <<>>, disabledTools |-> <<>>,
   functionDefinitions |-> <<>>, n |-> 0]

AllMcpTools == <<"im.ok", "im.err", "im.throw">>

\* faulty variant: the name is not looked up in the catalog
ToolRegisteredAlways(toolName) == TRUE

ToolRegistered(toolName) == \E i \in 1..Len(AllMcpTools) : AllMcpTools[i] = toolName

\* larkOapiHandler(client, parameters, {tool}): the remote operation
RemoteOutcome(toolName) ==
  CASE toolName = "im.ok" -> "success"
    [] toolName = "im.err" -> "isError"
    [] OTHER -> "throws"

\* faulty variant: a thrown exception of the remote operation is returned
\* as if it were content
ExecuteToolCallUnmarked(toolName, parameters) ==
  IF toolName = "" THEN <<"Error: ", "Invalid tool name">>
  ELSE IF ~ToolRegistered(toolName) THEN <<"Error: ", "Tool ", toolName, " not found">>
  ELSE CASE RemoteOutcome(toolName) = "success" -> <<"", "content", toolName, parameters>>
         [] RemoteOutcome(toolName) = "isError" -> <<"Error: ", "Tool execution failed", toolName>>
         [] OTHER -> <<"", "handler threw", toolName>>

\* executeToolCall(toolName, parameters): the text it returns, as the
\* sequence of the pieces it is put together from
ExecuteToolCall(toolName, parameters) ==
  IF toolName = "" THEN <<"Error: ", "Invalid tool name">>
  ELSE IF ~ToolRegistered(toolName) THEN <<"Error: ", "Tool ", toolName, " not found">>
  ELSE CASE RemoteOutcome(toolName) = "success" -> <<"", "content", toolName, parameters>>
         [] RemoteOutcome(toolName) = "isError" -> <<"Error: ", "Tool execution failed", toolName>>
         [] OTHER -> <<"Error executing tool: ", "handler threw", toolName>>

\* does executeToolCall reach the remote operation
InvokesRemote(toolName) == toolName # "" /\ ToolRegistered(toolName)

\* faulty variant: parses every well-formed text to the empty object
JsonParseArgsLossy(text) ==
  CASE text \in {"{\"q\":1}", "{}", "{\"ids\":[1,2]}"} -> "obj_empty"
    [] OTHER -> "SyntaxError"

\* JSON.parse of a tool call's argument text: the object, or "SyntaxError"
JsonParseArgs(text) ==
  CASE text = "{\"q\":1}" -> "obj_q1"
    [] text = "{}" -> "obj_empty"
    [] text = "{\"ids\":[1,2]}" -> "obj_ids"
    [] OTHER -> "SyntaxError"

\* the argument objects told apart, and the JSON text an LLM sends for each
ArgObjects == {"obj_q1", "obj_empty", "obj_ids"}

JsonStringify(object) ==
  CASE object = "obj_q1" -> "{\"q\":1}"
    [] object = "obj_empty" -> "{}"
    [] OTHER -> "{\"ids\":[1,2]}"

\* typeof rawArgs === 'string' ? JSON.parse(rawArgs) : rawArgs ?? {}
FunctionArgs(rawArgs) ==
  CASE rawArgs.type = "string" -> JsonParseArgs(rawArgs.text)
    [] rawArgs.type = "object" -> rawArgs.value
    [] OTHER -> "obj_empty"

ArgString(text) == [type |-> "string", text |-> text, value |-> ""]
ArgObject(value) == [type |-> "object", text |-> "", value |-> value]
ArgAbsent == [type |-> "undefined", text |-> "", value |-> ""]

ToolCall(id, name, args) == [id |-> id, name |-> name, arguments |-> args]

\* ------------------------------------------------------------------------
\* Conversation messages
\* ------------------------------------------------------------------------
\* cyc is a history variable: the cycle that appended the message (0: before
\* the behaviour starts); tool_call_id 0 stands for a message without one
UserMessage(content, cyc) ==
  [role |-> "user", content |-> content, tool_call_id |-> 0, tool_calls |-> <<>>, cyc |-> cyc]

AssistantMessage(text, toolCalls, cyc) ==
  [role |-> "assistant", content |-> <<text>>, tool_call_id |-> 0,
   tool_calls |-> toolCalls, cyc |-> cyc]

\* faulty variant: the tool message does not name its tool call
ToolMessageWithoutId(toolCall, result, cyc) ==
  [role |-> "tool", content |-> result, tool_call_id |-> 0, tool_calls |-> <<>>, cyc |-> cyc]

ToolMessage(toolCall, result, cyc) ==
  [role |-> "tool", content |-> result, tool_call_id |-> toolCall.id,
   tool_calls |-> <<>>, cyc |-> cyc]

\* a history left behind by k/2 earlier cycles without tool calls
OldHistory(k) ==
  [i \in 1..k |-> IF i % 2 = 1 THEN UserMessage(<<"H", "i">>, 0)
                  ELSE AssistantMessage("answer", <<>>, 0)]

\* new LarkAPIError(`Failed to send message after ${maxRetries} attempts`, lastError)
DeliveryFailure(lastError) ==
  [class |-> "LarkAPIError", markers |-> {}, code |-> "",
   cause |-> IF lastError = NoError THEN <<>> ELSE <<lastError>>]

\* ------------------------------------------------------------------------
\* Inputs
\* ------------------------------------------------------------------------
Hi == <<"H", "i">>

Contents ==
  { [kind |-> "json", text |-> Hi],
    [kind |-> "json", text |-> <<>>],
    [kind |-> "json", text |-> <<" ">>],
    [kind |-> "json", text |-> <<MentionLiteral, "1", " ">> \o Hi],
    [kind |-> "json", text |-> <<MentionLiteral, "1", " ">>],
    [kind |-> "raw", text |-> Hi],
    [kind |-> "absent", text |-> <<>>] }

NoContent == [kind |-> "consumed", text |-> <<>>]

Events ==
  [chat_id : Chats, message_id : {Undefined, "m1"}, content : Contents]

NoEvent == [chat_id |-> "", message_id |-> Undefined, content |-> NoContent]

GoodArgs == ArgString("{\"q\":1}")

\* n calls of the tool that succeeds
LongList(n) == [i \in 1..n |-> ToolCall(i, "im.ok", GoodArgs)]

\* one good call; a mix of an unregistered name, an empty name, a reported
\* error, a throwing handler and structured arguments; unparsable argument
\* text; a long list
ToolCallLists ==
  { <<ToolCall(1, "im.ok", GoodArgs)>>,
    <<ToolCall(1, "wiki.none", ArgAbsent), ToolCall(2, "", ArgObject("obj_empty")),
      ToolCall(3, "im.err", GoodArgs), ToolCall(4, "im.throw", ArgString("{}")),
      ToolCall(5, "im.ok", ArgObject("obj_q1"))>>,
    <<ToolCall(1, "im.ok", ArgString("{bad")), ToolCall(2, "im.ok", GoodArgs)>>,
    LongList(LongCalls) }

LLMFailures == { ApiError("1113", {}), ApiError("", {}) }

LLMResponse(kind, error, content, toolCalls) ==
  [kind |-> kind, error |-> error, content |-> content, tool_calls |-> toolCalls]

FirstResponses ==
  { LLMResponse("fail", e, "", <<>>) : e \in LLMFailures }
  \cup { LLMResponse("malformed", NoError, "", <<>>) }
  \cup { LLMResponse("ok", NoError, c, <<>>) : c \in {"answer", ""} }
  \cup { LLMResponse("ok", NoError, "", l) : l \in ToolCallLists }

\* the follow-up answer may ask for tools again
FollowUpResponses ==
  { LLMResponse("fail", ApiError("", {}), "", <<>>),
    LLMResponse("ok", NoError, "final", <<ToolCall(1, "im.ok", GoodArgs)>>) }

\* what one invocation of sendTextMessage can do inside a cycle: success
\* (NoError), a retryable failure, a non-retryable failure
SendOutcomes == { NoError, PlainError({}), PlainError({"401"}) }

\* the outcomes tried on sendMessageWithRetry called on its own
DirectSendOutcomes ==
  SendOutcomes \cup { PlainError({"404", "503"}), PlainError({"429"}),
                      PlainError({"timeout", "500"}) }

\* can a call into the conversation store throw (an injected backend may;
\* MemoryStorage does not)
StoreOutcomes == {"ok", "throws"}

\* ------------------------------------------------------------------------
\* State
\* ------------------------------------------------------------------------
VARIABLES
  now,                  \* Date.now()
  processedMessageIds,  \* LarkMCPBot.processedMessageIds: message id -> time
  conversations,        \* MemoryStorage.conversations: chat id -> array reference
  timestamps,           \* MemoryStorage.timestamps: chat id -> time
  arrays,               \* the heap of history arrays: reference -> messages
  handler,              \* per invocation of handleMessageReceive: its locals
  cycles,               \* history variable: invocations started so far
  ticks,                \* history variable: clock advances so far
  acceptedAt,           \* history variable: id -> time it was last let through
  dedupCall,            \* history variable: the last direct dedup call
  storeCall,            \* history variable: the last direct call of the store
  toolFilter,           \* history variable: the last conversion of a tool catalog
  redis                 \* RedisStorage.redis: the keys and the chat-id set it holds

vars ==
  <<now, processedMessageIds, conversations, timestamps, arrays, handler,
    cycles, ticks, acceptedAt, dedupCall, storeCall,
                 toolFilter, redis>>

NoRef == 0
Refs == 1..(Cardinality(Chats) + Cardinality(Procs))

\* what the store holds, as its callers can read it
StoreView(convs, arrs, tss) ==
  [history |-> [c \in DOMAIN convs |-> arrs[convs[c]]], timestamp |-> tss]

EmptyView == StoreView(EmptyMap, <<>>, EmptyMap)

IdleHandler ==
  [ pc |-> "idle", event |-> NoEvent, messageText |-> <<>>, history |-> NoRef,
    toolCalls |-> <<>>, responseContent |-> "", toolIdx |-> 0, text |-> "",
    caller |-> "none", attempt |-> 0, maxRetries |-> 0, lastError |-> NoError,
    error |-> NoError,
    \* history variables of the cycle
    cyc |-> 0, outcome |-> "none", skipped |-> "no", thrown |-> NoError,
    llmRequests |-> <<>>, executed |-> <<>>, secondToolCalls |-> 0,
    sendLog |-> <<>>, sleeps |-> <<>>, delivered |-> <<>>,
    replyFailed |-> FALSE, persisted |-> <<>>, appended |-> 0,
    storeBefore |-> EmptyView, storeAfterCleanup |-> EmptyView, expectDup |-> FALSE,
    blank |-> FALSE, dedupKey |-> Undefined, cleanupFailed |-> FALSE,
    parsedText |-> <<>>, sequences |-> 0 ]

InUse(convs, hnd) ==
  {convs[c] : c \in DOMAIN convs} \cup {hnd[p].history : p \in Procs}

\* unreferenced arrays are garbage: forget their contents
Collect(arrs, convs, hnd) ==
  LET used == InUse(convs, hnd)
  IN [r \in DOMAIN arrs |-> IF r \in used THEN arrs[r] ELSE <<>>]

\* faulty variant: every unknown chat is handed the same array
FreshRefShared(convs, hnd) == 1

FreshRef(convs, hnd) == CHOOSE r \in Refs : r \notin InUse(convs, hnd)
                          /\ \A q \in Refs : q \notin InUse(convs, hnd) => r <= q

\* ------------------------------------------------------------------------
\* MemoryStorage
\* ------------------------------------------------------------------------
\* the chats cleanup(ttlMs) removes at time t
ExpiredChats(tss, t, ttlMs) == {c \in DOMAIN tss : t - tss[c] > ttlMs}

\* getHistory(chatId): the array of the chat, or a new empty one
GetHistory(convs, arrs, chatId) ==
  IF chatId \in DOMAIN convs THEN arrs[convs[chatId]] ELSE <<>>

\* faulty variant: removes a chat as soon as its age reaches the TTL
CleanupInclusive(convs, tss, t, ttlMs) ==
  LET gone == {c \in DOMAIN tss : t - tss[c] >= ttlMs}
  IN [conversations |-> MapDelete(convs, gone), timestamps |-> MapDelete(tss, gone),
      cleaned |-> Cardinality(gone)]

\* cleanup(ttlMs) at time t: every entry of the timestamp map that is older
\* than ttlMs is deleted from both maps and counted
Cleanup(convs, tss, t, ttlMs) ==
  LET expired == ExpiredChats(tss, t, ttlMs)
  IN [conversations |-> MapDelete(convs, expired),
      timestamps |-> MapDelete(tss, expired),
      cleaned |-> Cardinality(expired)]

NoStoreCall ==
  [op |-> "none", chatId |-> Undefined, messages |-> <<>>, ttlMs |-> 0, at |-> 0,
   history |-> <<>>, cleaned |-> 0, before |-> EmptyView, n |-> 0]

\* Init: the bot has just answered message m1 in chat c1, whose history is
\* full; chat c2 is unknown
NoDedupCall ==
  [id |-> Undefined, at |-> 0, ret |-> TRUE, prev |-> 0, n |-> 0, rejected |-> 0]

Init ==
  /\ now = StartTime
  /\ processedMessageIds = [id \in {"m1"} |-> StartTime]
  /\ conversations = [c \in {"c1"} |-> 1]
  /\ timestamps = [c \in {"c1"} |-> StartTime]
  /\ arrays = [r \in Refs |-> IF r = 1 THEN OldHistory(HistoryCapNoTools) ELSE <<>>]
  /\ handler = [p \in Procs |-> IdleHandler]
  /\ cycles = 0
  /\ ticks = 0
  /\ acceptedAt = [id \in {"m1"} |-> StartTime]
  /\ dedupCall = NoDedupCall
  /\ storeCall = NoStoreCall
  /\ toolFilter = NoToolFilter
  /\ redis = NoRedis

\* ------------------------------------------------------------------------
\* The clock
\* ------------------------------------------------------------------------
TickBy(steps, maxTicks) ==
  /\ ticks < maxTicks
  /\ \E d \in steps : now' = now + d
  /\ ticks' = ticks + 1

\* the clock moves between cycles; by then the locals of a finished
\* invocation are gone
Tick ==
  /\ \A p \in Procs : handler[p].pc \in {"idle", "done"}
  /\ TickBy(TickSteps, MaxTicks)
  /\ handler' = [p \in Procs |-> IdleHandler]
  /\ UNCHANGED <<processedMessageIds, conversations, timestamps, arrays, cycles,
                 acceptedAt, dedupCall, storeCall,
                 toolFilter, redis>>

\* ------------------------------------------------------------------------
\* sendMessageWithRetry and the top-level catch block, as record updates
\* ------------------------------------------------------------------------
\* the handler returns or throws: its locals die
Finish(h, outcome) == [h EXCEPT !.pc = "done", !.outcome = outcome, !.history = NoRef]

\* faulty variant: lets a failed apology escape the handler
OnSendFailureUnguarded(caller) ==
  CASE caller = "reply" -> "catch"
    [] OTHER -> "propagate"

\* where the error thrown by sendMessageWithRetry goes: the reply is sent
\* inside the handler's try block, the apology inside the catch block's own
\* try/catch, a direct call has no handler around it
OnSendFailure(caller) ==
  CASE caller = "reply" -> "catch"
    [] caller = "apology" -> "swallow"
    [] OTHER -> "propagate"

\* sendMessageWithRetry(chatId, text, context, maxRetries) starts
BeginSend(h, text, caller, maxRetries) ==
  [h EXCEPT !.text = text, !.caller = caller, !.attempt = 1, !.maxRetries = maxRetries,
            !.lastError = NoError, !.sendLog = <<>>, !.sleeps = <<>>,
            !.sequences = @ + 1]

\* faulty variant: a failed apology is sent again
ThrowFromApologyRetrying(h) ==
  [BeginSend(h, h.text, "apology", DefaultMaxRetries) EXCEPT !.pc = "send"]

\* the delivery failure leaves sendMessageWithRetry while sending the apology
ThrowFromApology(h) ==
  IF OnSendFailure("apology") = "swallow"
  THEN Finish(h, "returned")
  ELSE [Finish(h, "threw") EXCEPT !.thrown = DeliveryFailure(h.lastError)]

\* faulty variant: the catch block only records the error and returns
EnterCatchSilent(h, err) == Finish([h EXCEPT !.error = err], "returned")

\* the catch block: choose the apology and start sending it
EnterCatch(h, err) ==
  LET c == BeginSend([h EXCEPT !.error = err], UserErrorMessage(err), "apology",
                     DefaultMaxRetries)
  IN IF AttemptAllowed(c.attempt, c.maxRetries)
     THEN [c EXCEPT !.pc = "send"]
     ELSE ThrowFromApology(c)

\* throw new LarkAPIError(..., lastError) after the retry loop
ThrowFromSend(h) ==
  CASE OnSendFailure(h.caller) = "catch" ->
         EnterCatch([h EXCEPT !.replyFailed = TRUE], DeliveryFailure(h.lastError))
    [] OnSendFailure(h.caller) = "swallow" -> ThrowFromApology(h)
    [] OTHER -> [Finish(h, "threw") EXCEPT !.thrown = DeliveryFailure(h.lastError)]

\* the head of the retry loop: invoke sendTextMessage, or leave the loop
SendLoop(h) ==
  IF AttemptAllowed(h.attempt, h.maxRetries)
  THEN [h EXCEPT !.pc = "send"]
  ELSE ThrowFromSend(h)

\* faulty variant: a delivered text does not end the retry loop
AfterSendAttemptResending(h, out) ==
  LET logged == [h EXCEPT !.sendLog = Append(@, out)]
  IN IF out = NoError
     THEN SendLoop([logged EXCEPT !.delivered = Append(@, h.text), !.attempt = @ + 1])
     ELSE ThrowFromSend([logged EXCEPT !.lastError = out])

\* sendTextMessage answered: success returns, failure is classified
AfterSendAttempt(h, out) ==
  LET logged == [h EXCEPT !.sendLog = Append(@, out)]
  IN IF out = NoError
     THEN Finish([logged EXCEPT !.delivered = Append(@, h.text)], "returned")
     ELSE LET failed == [logged EXCEPT !.lastError = out]
          IN IF ShouldAbort(IsRetryableError(out), h.attempt, h.maxRetries)
             THEN ThrowFromSend(failed)
             ELSE IF h.attempt < h.maxRetries
                  THEN [failed EXCEPT !.pc = "backoff",
                                      !.sleeps = Append(@, BackoffDelay(h.attempt))]
                  ELSE SendLoop([failed EXCEPT !.attempt = @ + 1])

\* ------------------------------------------------------------------------
\* Actions of the reply sender
\* ------------------------------------------------------------------------
SendAttemptFrom(p, outcomes) ==
  /\ handler[p].pc = "send"
  /\ \E out \in outcomes :
       handler' = [handler EXCEPT ![p] = AfterSendAttempt(handler[p], out)]
  /\ arrays' = Collect(arrays, conversations, handler')
  /\ UNCHANGED <<now, processedMessageIds, conversations, timestamps, cycles, ticks,
                 acceptedAt, dedupCall, storeCall,
                 toolFilter, redis>>

SendAttempt(p) == handler[p].caller # "direct" /\ SendAttemptFrom(p, SendOutcomes)

\* the backoff timer fires: attempt++ and back to the head of the loop
Backoff(p) ==
  /\ handler[p].pc = "backoff"
  /\ handler' = [handler EXCEPT ![p] = SendLoop([handler[p] EXCEPT !.attempt = @ + 1])]
  /\ arrays' = Collect(arrays, conversations, handler')
  /\ UNCHANGED <<now, processedMessageIds, conversations, timestamps, cycles, ticks,
                 acceptedAt, dedupCall, storeCall,
                 toolFilter, redis>>

\* ------------------------------------------------------------------------
\* Actions of handleMessageReceive, one per stretch between two awaits
\* ------------------------------------------------------------------------
\* faulty variant: attaches the tool definitions to the follow-up request as well
FollowUpRequestWithTools(history) ==
  [tools |-> TRUE, window |-> LastN(history, FollowUpContextWindow)]

\* the second chat.completions.create call: no tools, history.slice(-20)
FollowUpRequest(history) ==
  [tools |-> FALSE, window |-> LastN(history, FollowUpContextWindow)]

\* the first chat.completions.create call: tools attached, history.slice(-10)
FirstRequest(history) ==
  [tools |-> TRUE, window |-> LastN(history, FirstContextWindow)]

\* faulty variant: the guard is called without an identifier
DedupKeyAbsent(ev) == Undefined

\* the argument of the call this.shouldProcessMessage(message.message_id)
DedupKey(ev) == ev.message_id

\* entry: dedup guard, then the call of cleanupExpiredConversations
ReceiveWithin(p, ev, maxCycles) ==
  /\ handler[p].pc \in {"idle", "done"}
  /\ cycles < maxCycles
  /\ cycles' = cycles + 1
  /\ LET r == ShouldProcessMessage(processedMessageIds, DedupKey(ev), now)
         hasId == ev.message_id # Undefined /\ ev.message_id # ""
         dup == /\ hasId
                /\ ev.message_id \in DOMAIN acceptedAt
                /\ now - acceptedAt[ev.message_id] <= MESSAGE_DEDUP_TTL_MS
         h0 == [IdleHandler EXCEPT !.event = ev, !.cyc = cycles + 1, !.outcome = "running",
                  !.dedupKey = DedupKey(ev),
                  !.storeBefore = StoreView(conversations, arrays, timestamps),
                  !.expectDup = dup]
     IN /\ processedMessageIds' = r.map
        /\ acceptedAt' = IF hasId /\ ~dup THEN MapSet(acceptedAt, ev.message_id, now)
                         ELSE acceptedAt
        /\ IF ~r.ret
           THEN /\ handler' = [handler EXCEPT ![p] =
                                 Finish([h0 EXCEPT !.skipped = "duplicate",
                                                   !.event.content = NoContent], "returned")]
                /\ UNCHANGED <<conversations, timestamps>>
           ELSE \E so \in StoreOutcomes :
                  IF so = "throws"
                  THEN /\ handler' = [handler EXCEPT ![p] =
                                         EnterCatch([h0 EXCEPT !.cleanupFailed = TRUE],
                                                    PlainError({}))]
                       /\ UNCHANGED <<conversations, timestamps>>
                  ELSE LET swept == Cleanup(conversations, timestamps, now,
                                            CONVERSATION_TTL_MS)
                       IN /\ conversations' = swept.conversations
                          /\ timestamps' = swept.timestamps
                          /\ handler' = [handler EXCEPT ![p] =
                               [h0 EXCEPT !.pc = "parse",
                                          !.storeAfterCleanup =
                                             StoreView(conversations', arrays, timestamps')]]
  /\ arrays' = Collect(arrays, conversations', handler')
  /\ UNCHANGED <<now, ticks, dedupCall, storeCall,
                 toolFilter, redis>>

Receive(p, ev) == ReceiveWithin(p, ev, MaxCycles)

\* parse the content, skip empty input, call storage.getHistory; the history
\* variable parsedText keeps the parsed text when record is set
ParseRecording(p, record) ==
  /\ handler[p].pc = "parse"
  /\ LET messageText == ParseContent(handler[p].event.content)
         h == [handler[p] EXCEPT !.event.content = NoContent,
                                 !.parsedText = IF record THEN messageText ELSE <<>>,
                                 !.blank = \A i \in 1..Len(messageText) : messageText[i] = " "]
         chatId == h.event.chat_id
     IN IF IsEmptyInput(messageText)
        THEN /\ handler' = [handler EXCEPT ![p] =
                              Finish([h EXCEPT !.skipped = "empty"], "returned")]
             /\ arrays' = Collect(arrays, conversations, handler')
        ELSE \E so \in StoreOutcomes :
               IF so = "throws"
               THEN /\ handler' = [handler EXCEPT ![p] = EnterCatch(h, PlainError({}))]
                    /\ arrays' = Collect(arrays, conversations, handler')
               ELSE LET ref == IF chatId \in DOMAIN conversations
                               THEN conversations[chatId]
                               ELSE FreshRef(conversations, handler)
                    IN /\ handler' = [handler EXCEPT ![p] =
                                        [h EXCEPT !.pc = "history", !.history = ref,
                                                  !.messageText = messageText]]
                       /\ arrays' = arrays
  /\ UNCHANGED <<now, processedMessageIds, conversations, timestamps, cycles, ticks,
                 acceptedAt, dedupCall, storeCall,
                 toolFilter, redis>>

Parse(p) == ParseRecording(p, FALSE)

\* storage.setTimestamp, strip the mentions, push the user turn, call the LLM
StartLLM(p) ==
  /\ handler[p].pc = "history"
  /\ LET h == handler[p]
         chatId == h.event.chat_id
     IN \E so \in StoreOutcomes :
          IF so = "throws"
          THEN /\ handler' = [handler EXCEPT ![p] = EnterCatch(h, PlainError({}))]
               /\ arrays' = Collect(arrays, conversations, handler')
               /\ UNCHANGED timestamps
          ELSE LET pushed == Append(arrays[h.history],
                                    UserMessage(CleanText(h.messageText), h.cyc))
               IN /\ timestamps' = MapSet(timestamps, chatId, now)
                  /\ arrays' = [arrays EXCEPT ![h.history] = pushed]
                  /\ handler' = [handler EXCEPT ![p] =
                       [h EXCEPT !.pc = "llm1", !.messageText = <<>>, !.appended = 1,
                                 !.llmRequests = Append(@, FirstRequest(pushed))]]
  /\ UNCHANGED <<now, processedMessageIds, conversations, cycles, ticks, acceptedAt,
                 dedupCall, storeCall,
                 toolFilter, redis>>

\* push the final assistant turn, trim, storage.setHistory, start the reply
PersistAndReply(p, h, text, cap) ==
  LET chatId == h.event.chat_id
      final == TrimHistory(Append(arrays[h.history], AssistantMessage(text, <<>>, h.cyc)), cap)
      trimmed == [arrays EXCEPT ![h.history] = final]
      h1 == [h EXCEPT !.appended = @ + 1]
  IN \E so \in StoreOutcomes :
       IF so = "throws"
       THEN /\ handler' = [handler EXCEPT ![p] = EnterCatch(h1, PlainError({}))]
            /\ arrays' = Collect(trimmed, conversations, handler')
            /\ UNCHANGED <<conversations, timestamps>>
       ELSE /\ conversations' = MapSet(conversations, chatId, h.history)
            /\ timestamps' = MapSet(timestamps, chatId, now)
            /\ handler' = [handler EXCEPT ![p] =
                 SendLoop(BeginSend([h1 EXCEPT !.persisted = <<final>>], text, "reply",
                                    DefaultMaxRetries))]
            /\ arrays' = Collect(trimmed, conversations', handler')

\* the first LLM call answers
LLM1ReturnFrom(p, responses) ==
  /\ handler[p].pc = "llm1"
  /\ LET h == handler[p]
     IN \E resp \in responses :
          CASE resp.kind = "fail" ->
                 /\ handler' = [handler EXCEPT ![p] = EnterCatch(h, LLMCallError(resp.error))]
                 /\ arrays' = Collect(arrays, conversations, handler')
                 /\ UNCHANGED <<conversations, timestamps>>
            [] resp.kind = "malformed" ->
                 /\ handler' = [handler EXCEPT ![p] = EnterCatch(h, PlainError({}))]
                 /\ arrays' = Collect(arrays, conversations, handler')
                 /\ UNCHANGED <<conversations, timestamps>>
            [] OTHER ->
                 IF Len(resp.tool_calls) > 0
                 THEN /\ handler' = [handler EXCEPT ![p] =
                           [h EXCEPT !.pc = "tools", !.toolCalls = resp.tool_calls,
                                     !.responseContent = resp.content, !.toolIdx = 1]]
                      /\ UNCHANGED <<conversations, timestamps, arrays>>
                 ELSE PersistAndReply(p, h, ContentOrFallback(resp.content),
                                      HistoryCapNoTools)
  /\ UNCHANGED <<now, processedMessageIds, cycles, ticks, acceptedAt, dedupCall, storeCall,
                 toolFilter, redis>>

LLM1Return(p) == LLM1ReturnFrom(p, FirstResponses)

\* one iteration of the tool loop; after the last one the follow-up LLM call
ToolStep(p) ==
  /\ handler[p].pc = "tools"
  /\ LET h == handler[p]
         toolCall == h.toolCalls[h.toolIdx]
         functionArgs == FunctionArgs(toolCall.arguments)
     IN IF functionArgs = "SyntaxError"
        THEN /\ handler' = [handler EXCEPT ![p] = EnterCatch(h, PlainError({}))]
             /\ arrays' = Collect(arrays, conversations, handler')
        ELSE LET result == ExecuteToolCall(toolCall.name, functionArgs)
                 pushed == arrays[h.history]
                             \o << AssistantMessage(h.responseContent, h.toolCalls, h.cyc),
                                   ToolMessage(toolCall, result, h.cyc) >>
                 h1 == [h EXCEPT !.appended = @ + 2,
                                 !.executed = Append(@, [call |-> toolCall,
                                                         args |-> functionArgs,
                                                         remote |-> InvokesRemote(toolCall.name),
                                                         result |-> result,
                                                         llmCalls |-> Len(h.llmRequests)])]
             IN /\ arrays' = [arrays EXCEPT ![h.history] = pushed]
                /\ handler' = [handler EXCEPT ![p] =
                     IF h.toolIdx < Len(h.toolCalls)
                     THEN [h1 EXCEPT !.toolIdx = @ + 1]
                     ELSE [h1 EXCEPT !.pc = "llm2",
                                     !.llmRequests = Append(@, FollowUpRequest(pushed))]]
  /\ UNCHANGED <<now, processedMessageIds, conversations, timestamps, cycles, ticks,
                 acceptedAt, dedupCall, storeCall,
                 toolFilter, redis>>

\* the follow-up LLM call answers
LLM2ReturnFrom(p, responses) ==
  /\ handler[p].pc = "llm2"
  /\ LET h == handler[p]
     IN \E resp \in responses :
          IF resp.kind = "fail"
          THEN /\ handler' = [handler EXCEPT ![p] = EnterCatch(h, LLMCallError(resp.error))]
               /\ arrays' = Collect(arrays, conversations, handler')
               /\ UNCHANGED <<conversations, timestamps>>
          ELSE PersistAndReply(p, [h EXCEPT !.secondToolCalls = Len(resp.tool_calls)],
                               ContentOrFallback(resp.content), HistoryCapWithTools)
  /\ UNCHANGED <<now, processedMessageIds, cycles, ticks, acceptedAt, dedupCall, storeCall,
                 toolFilter, redis>>

LLM2Return(p) == LLM2ReturnFrom(p, FollowUpResponses)

Next ==
  \/ \E ev \in Events : Receive(1, ev)
  \/ \E p \in Procs : Parse(p)
  \/ \E p \in Procs : StartLLM(p)
  \/ \E p \in Procs : LLM1Return(p)
  \/ \E p \in Procs : ToolStep(p)
  \/ \E p \in Procs : LLM2Return(p)
  \/ \E p \in Procs : SendAttempt(p)
  \/ \E p \in Procs : Backoff(p)
  \/ Tick

Spec == Init /\ [][Next]_vars

\* ------------------------------------------------------------------------
\* shouldProcessMessage on its own: calls at non-decreasing times
\* ------------------------------------------------------------------------
DedupIds == {Undefined, "", "m1", "m2"}

WithinWindow(map, id, t) == id \in DOMAIN map /\ t - map[id] <= MESSAGE_DEDUP_TTL_MS

DedupCall ==
  /\ dedupCall.n < MaxDedupCalls
  /\ \E id \in DedupIds :
       LET r == ShouldProcessMessage(processedMessageIds, id, now)
           hasId == id # Undefined /\ id # ""
           dup == hasId /\ WithinWindow(acceptedAt, id, now)
       IN /\ processedMessageIds' = r.map
          /\ acceptedAt' = IF hasId /\ ~dup THEN MapSet(acceptedAt, id, now) ELSE acceptedAt
          /\ dedupCall' = [id |-> id, at |-> now, ret |-> r.ret,
                           prev |-> IF id \in DOMAIN acceptedAt THEN acceptedAt[id] ELSE 0,
                           n |-> dedupCall.n + 1,
                           rejected |-> dedupCall.rejected + (IF r.ret THEN 0 ELSE 1)]
  /\ UNCHANGED <<now, conversations, timestamps, arrays, handler, cycles, ticks,
                 storeCall,
                 toolFilter, redis>>

DedupTick ==
  /\ TickBy(FineTickSteps, MaxDedupTicks)
  /\ UNCHANGED <<processedMessageIds, conversations, timestamps, arrays, handler, cycles,
                 acceptedAt, dedupCall, storeCall,
                 toolFilter, redis>>

NextDedup == DedupCall \/ DedupTick

SpecDedup == Init /\ [][NextDedup]_vars

\* ------------------------------------------------------------------------
\* sendMessageWithRetry on its own, for every maxRetries >= 1
\* ------------------------------------------------------------------------
InitSend ==
  /\ now = StartTime
  /\ processedMessageIds = EmptyMap
  /\ conversations = EmptyMap
  /\ timestamps = EmptyMap
  /\ arrays = [r \in Refs |-> <<>>]
  /\ \E maxRetries \in 1..MaxRetriesBound :
       handler = [p \in Procs |->
                    IF p = 1
                    THEN SendLoop(BeginSend([IdleHandler EXCEPT !.outcome = "running",
                                                                !.event.chat_id = "c1"],
                                            "Hello", "direct", maxRetries))
                    ELSE IdleHandler]
  /\ cycles = 0
  /\ ticks = 0
  /\ acceptedAt = EmptyMap
  /\ dedupCall = NoDedupCall
  /\ storeCall = NoStoreCall
  /\ toolFilter = NoToolFilter
  /\ redis = NoRedis

DirectSendAttempt(p) ==
  handler[p].caller = "direct" /\ SendAttemptFrom(p, DirectSendOutcomes)

NextSend ==
  \/ \E p \in Procs : DirectSendAttempt(p)
  \/ \E p \in Procs : Backoff(p)

SpecSend == InitSend /\ [][NextSend]_vars

\* ------------------------------------------------------------------------
\* Two chats served by concurrent invocations of handleMessageReceive: the
\* event dispatcher does not await one invocation before starting the next,
\* so their steps interleave at every await
\* ------------------------------------------------------------------------
ChatOf(p) == IF p = 1 THEN "c1" ELSE "c2"

ChatEvents(p) ==
  {ev \in Events : /\ ev.chat_id = ChatOf(p)
                   /\ ev.message_id = Undefined
                   /\ ev.content = [kind |-> "json", text |-> Hi]}

\* what the LLM and the platform do in the two-chat behaviours: a failure, a
\* plain answer or one tool call; a delivery that succeeds or is refused
ChatFirstResponses ==
  {r \in FirstResponses : /\ r.kind # "malformed"
                          /\ r.error \in {NoError, ApiError("", {})}
                          /\ r.content = "" => r.kind = "fail" \/ Len(r.tool_calls) = 1
                          /\ Len(r.tool_calls) <= 1}

ChatSendOutcomes == {NoError, PlainError({"401"})}

NextChats ==
  \/ \E p \in Procs : \E ev \in ChatEvents(p) : ReceiveWithin(p, ev, MaxChatCycles)
  \/ \E p \in Procs : Parse(p)
  \/ \E p \in Procs : StartLLM(p)
  \/ \E p \in Procs : LLM1ReturnFrom(p, ChatFirstResponses)
  \/ \E p \in Procs : ToolStep(p)
  \/ \E p \in Procs : LLM2Return(p)
  \/ \E p \in Procs : handler[p].caller # "direct" /\ SendAttemptFrom(p, ChatSendOutcomes)
  \/ Tick

SpecChats == Init /\ [][NextChats]_vars

\* ------------------------------------------------------------------------
\* Deliveries that carry the identifiers of LarkMessageEvent: the optional
\* event_id of the delivery and the optional message_id of the message
\* ------------------------------------------------------------------------
KeyedEvents ==
  [chat_id : {"c1"}, message_id : {Undefined, "m2"},
   event_id : {Undefined, "e1"}, content : {[kind |-> "json", text |-> Hi]}]

NextKeyed ==
  \/ \E ev \in KeyedEvents : ReceiveWithin(1, ev, MaxChatCycles)
  \/ \E p \in Procs : Parse(p)
  \/ \E p \in Procs : StartLLM(p)
  \/ \E p \in Procs : LLM1ReturnFrom(p, ChatFirstResponses)
  \/ \E p \in Procs : ToolStep(p)
  \/ \E p \in Procs : LLM2Return(p)
  \/ \E p \in Procs : handler[p].caller # "direct" /\ SendAttemptFrom(p, ChatSendOutcomes)
  \/ Tick

SpecKeyed == Init /\ [][NextKeyed]_vars

\* ------------------------------------------------------------------------
\* One cycle in which anything that can fail fails in every way the catch
\* blocks tell apart: business codes and message contents of LLM errors,
\* message contents of errors of the store, failed deliveries
\* ------------------------------------------------------------------------
ErrorCodes == {"", "1113", "1308", "1309", "1302", "1303", "1305", "1301"}

ErrorMarkers == { {}, {"429"}, {"rate limit"}, {"Rate Limit"}, {"429", "rate limit"} }

FailingResponses ==
  { LLMResponse("fail", ApiError(code, markers), "", <<>>) :
      code \in ErrorCodes, markers \in ErrorMarkers }

ApologyEvents ==
  {ev \in Events : /\ ev.chat_id = "c1"
                   /\ ev.message_id = Undefined
                   /\ ev.content = [kind |-> "json", text |-> Hi]}

\* await this.storage.getHistory(chatId) rejects: the error of the backend
\* goes to the top-level catch block as it is
GetHistoryThrows(p) ==
  /\ handler[p].pc = "parse"
  /\ ~IsEmptyInput(ParseContent(handler[p].event.content))
  /\ \E markers \in ErrorMarkers :
       handler' = [handler EXCEPT ![p] =
                     EnterCatch([handler[p] EXCEPT !.event.content = NoContent],
                                PlainError(markers))]
  /\ arrays' = Collect(arrays, conversations, handler')
  /\ UNCHANGED <<now, processedMessageIds, conversations, timestamps, cycles, ticks,
                 acceptedAt, dedupCall, storeCall,
                 toolFilter, redis>>

NextApology ==
  \/ \E ev \in ApologyEvents : Receive(1, ev)
  \/ \E p \in Procs : Parse(p)
  \/ \E p \in Procs : GetHistoryThrows(p)
  \/ \E p \in Procs : StartLLM(p)
  \/ \E p \in Procs : LLM1ReturnFrom(p, ChatFirstResponses \cup FailingResponses)
  \/ \E p \in Procs : ToolStep(p)
  \/ \E p \in Procs : LLM2ReturnFrom(p, FollowUpResponses \cup FailingResponses)
  \/ \E p \in Procs : handler[p].caller # "direct" /\ SendAttemptFrom(p, DirectSendOutcomes)
  \/ \E p \in Procs : Backoff(p)

SpecApology == Init /\ [][NextApology]_vars

\* ------------------------------------------------------------------------
\* One cycle whose first LLM answer asks for tools: every tool name with
\* every form of arguments, and the same arguments once as JSON text and
\* once as an object
\* ------------------------------------------------------------------------
ToolNames == {"", "wiki.none", "im.ok", "im.err", "im.throw"}

ToolArgs ==
  {ArgAbsent} \cup {ArgString(JsonStringify(o)) : o \in ArgObjects}
              \cup {ArgObject(o) : o \in ArgObjects}

ToolResponses ==
  { LLMResponse("ok", NoError, "", <<ToolCall(1, n, a)>>) : n \in ToolNames, a \in ToolArgs }
  \cup { LLMResponse("ok", NoError, "",
                     <<ToolCall(1, n, ArgString(JsonStringify(o))),
                       ToolCall(2, n, ArgObject(o))>>) : n \in {"im.ok"}, o \in ArgObjects }

NextTools ==
  \/ \E ev \in ApologyEvents : Receive(1, ev)
  \/ \E p \in Procs : Parse(p)
  \/ \E p \in Procs : StartLLM(p)
  \/ \E p \in Procs : LLM1ReturnFrom(p, ToolResponses)
  \/ \E p \in Procs : ToolStep(p)
  \/ \E p \in Procs : LLM2Return(p)
  \/ \E p \in Procs : handler[p].caller # "direct" /\ SendAttemptFrom(p, ChatSendOutcomes)

SpecTools == Init /\ [][NextTools]_vars

\* ------------------------------------------------------------------------
\* One cycle on every message text of up to MaxTextLen tokens: the cycle has
\* passed the dedup guard and the cleanup and is about to parse the content
\* ------------------------------------------------------------------------
Tokens == {MentionLiteral, "H"} \cup Digits \cup Whitespace

Texts == UNION {[1..n -> Tokens] : n \in 0..MaxTextLen}

InitMention ==
  /\ now = StartTime
  /\ processedMessageIds = EmptyMap
  /\ conversations = EmptyMap
  /\ timestamps = EmptyMap
  /\ arrays = [r \in Refs |-> <<>>]
  /\ \E text \in Texts :
       handler = [p \in Procs |->
                    IF p = 1
                    THEN [IdleHandler EXCEPT
                            !.pc = "parse", !.cyc = 1, !.outcome = "running",
                            !.event = [chat_id |-> "c1", message_id |-> Undefined,
                                       content |-> [kind |-> "json", text |-> text]]]
                    ELSE IdleHandler]
  /\ cycles = 1
  /\ ticks = 0
  /\ acceptedAt = EmptyMap
  /\ dedupCall = NoDedupCall
  /\ storeCall = NoStoreCall
  /\ toolFilter = NoToolFilter
  /\ redis = NoRedis

PlainAnswers == {r \in FirstResponses : r.kind = "ok" /\ r.content = "answer"}

NextMention ==
  \/ \E p \in Procs : ParseRecording(p, TRUE)
  \/ \E p \in Procs : StartLLM(p)
  \/ \E p \in Procs : LLM1ReturnFrom(p, PlainAnswers)
  \/ \E p \in Procs : handler[p].caller # "direct" /\ SendAttemptFrom(p, {NoError})

SpecMention == InitMention /\ [][NextMention]_vars

\* ------------------------------------------------------------------------
\* Two invocations for the same chat, interleaved at every await
\* ------------------------------------------------------------------------
NextRace ==
  \/ \E p \in Procs : \E ev \in ChatEvents(1) : ReceiveWithin(p, ev, MaxChatCycles)
  \/ \E p \in Procs : Parse(p)
  \/ \E p \in Procs : StartLLM(p)
  \/ \E p \in Procs : LLM1ReturnFrom(p, ChatFirstResponses)
  \/ \E p \in Procs : ToolStep(p)
  \/ \E p \in Procs : LLM2Return(p)
  \/ \E p \in Procs : handler[p].caller # "direct" /\ SendAttemptFrom(p, ChatSendOutcomes)
  \/ Tick

SpecRace == Init /\ [][NextRace]_vars

\* ------------------------------------------------------------------------
\* Deliveries of one message, id m2, to invocations that run one after the
\* other or side by side; the LLM may fail and the platform may refuse
\* ------------------------------------------------------------------------
NextRedelivery ==
  \/ \E p \in Procs : \E ev \in KeyedEvents :
       /\ ev.message_id = "m2"
       /\ ev.event_id = Undefined
       /\ ReceiveWithin(p, ev, MaxChatCycles)
  \/ \E p \in Procs : Parse(p)
  \/ \E p \in Procs : StartLLM(p)
  \/ \E p \in Procs : LLM1ReturnFrom(p, ChatFirstResponses)
  \/ \E p \in Procs : ToolStep(p)
  \/ \E p \in Procs : LLM2Return(p)
  \/ \E p \in Procs : handler[p].caller # "direct" /\ SendAttemptFrom(p, ChatSendOutcomes)
  \/ Tick

SpecRedelivery == Init /\ [][NextRedelivery]_vars

\* ------------------------------------------------------------------------
\* The constructor's conversion of a tool catalog under a configuration
\* ------------------------------------------------------------------------
CatalogNames == {<<"i", "m", ".", "a">>, <<"i", "m", ".", "b">>, <<"i", "m", "g">>}

\* a prefix that ends a name segment, one that ends inside a segment and one
\* longer than every name
ConfiguredPrefixes == {<<"i", "m", ".">>, <<"i", "m">>, <<"i", "m", ".", "a", "b">>}

SeqsUpTo(S, n) == UNION {[1..k -> S] : k \in 0..n}

\* the constructor converts the catalog once
ConvertCatalog ==
  /\ toolFilter.n = 0
  /\ \E tools \in SeqsUpTo(CatalogNames, MaxCatalogLen),
       enabled \in SeqsUpTo(ConfiguredPrefixes, MaxListLen),
       disabled \in SeqsUpTo(CatalogNames, MaxListLen) :
      /\ toolFilter' =
           [tools |-> tools, enabledToolPrefixes |-> enabled, disabledTools |-> disabled,
            functionDefinitions |-> ConvertMcpToolsToFunctions(tools, enabled, disabled),
            n |-> 1]
      /\ UNCHANGED <<now, processedMessageIds, conversations, timestamps, arrays, handler,
                     cycles, ticks, acceptedAt, dedupCall, storeCall, redis>>

NextFilter == ConvertCatalog

SpecFilter == Init /\ [][NextFilter]_vars

\* ------------------------------------------------------------------------
\* A bot whose configuration keeps a registered tool away from the LLM: the
\* constructor has converted the catalog of AllMcpTools, then a cycle runs
\* whose first LLM answer asks for tools
\* ------------------------------------------------------------------------
\* the characters of a tool name
NameChars(toolName) ==
  CASE toolName = "im.ok" -> <<"i", "m", ".", "o", "k">>
    [] toolName = "im.err" -> <<"i", "m", ".", "e", "r", "r">>
    [] toolName = "im.throw" -> <<"i", "m", ".", "t", "h", "r", "o", "w">>
    [] toolName = "wiki.none" -> <<"w", "i", "k", "i", ".", "n", "o", "n", "e">>
    [] OTHER -> <<>>

InitExcluded ==
  /\ now = StartTime
  /\ processedMessageIds = [id \in {"m1"} |-> StartTime]
  /\ conversations = [c \in {"c1"} |-> 1]
  /\ timestamps = [c \in {"c1"} |-> StartTime]
  /\ arrays = [r \in Refs |-> IF r = 1 THEN OldHistory(HistoryCapNoTools) ELSE <<>>]
  /\ handler = [p \in Procs |-> IdleHandler]
  /\ cycles = 0
  /\ ticks = 0
  /\ acceptedAt = [id \in {"m1"} |-> StartTime]
  /\ dedupCall = NoDedupCall
  /\ storeCall = NoStoreCall
  /\ \E enabled \in {<<>>, <<(<<"i", "m", ".">>)>>, <<(<<"i", "m", ".", "o">>)>>},
        disabled \in {<<>>, <<NameChars("im.ok")>>, <<NameChars("im.throw")>>} :
       LET tools == [i \in 1..Len(AllMcpTools) |-> NameChars(AllMcpTools[i])]
       IN toolFilter =
            [tools |-> tools, enabledToolPrefixes |-> enabled, disabledTools |-> disabled,
             functionDefinitions |-> ConvertMcpToolsToFunctions(tools, enabled, disabled),
             n |-> 1]
  /\ redis = NoRedis

SpecExcluded == InitExcluded /\ [][NextTools]_vars

\* ------------------------------------------------------------------------
\* A crowded store: as many chats as the cap of the older bot, or more, each
\* written at StartTime with an empty history, as the test of the limit
\* fills the maps
\* ------------------------------------------------------------------------
CrowdSizes == {MAX_CONVERSATIONS, MAX_CONVERSATIONS + 1}

CrowdChat(i) == "chat-" \o ToString(i)

CrowdRef(i) == Cardinality(Refs) + i

InitCrowd ==
  /\ now = StartTime
  /\ processedMessageIds = EmptyMap
  /\ \E n \in CrowdSizes :
       LET crowd == [i \in 1..n |-> CrowdChat(i)]
           ids == {crowd[i] : i \in 1..n}
       IN /\ conversations = [c \in ids |-> CrowdRef(CHOOSE i \in 1..n : crowd[i] = c)]
          /\ timestamps = [c \in ids |-> StartTime]
          /\ arrays = [r \in 1..CrowdRef(n) |-> <<>>]
  /\ handler = [p \in Procs |-> IdleHandler]
  /\ cycles = 0
  /\ ticks = 0
  /\ acceptedAt = EmptyMap
  /\ dedupCall = NoDedupCall
  /\ storeCall = NoStoreCall
  /\ toolFilter = NoToolFilter
  /\ redis = NoRedis

NextCrowd ==
  \/ \E p \in Procs : \E ev \in ChatEvents(p) : ReceiveWithin(p, ev, MaxCycles)
  \/ \E p \in Procs : Parse(p)
  \/ \E p \in Procs : StartLLM(p)
  \/ \E p \in Procs : LLM1ReturnFrom(p, PlainAnswers)
  \/ \E p \in Procs : handler[p].caller # "direct" /\ SendAttemptFrom(p, ChatSendOutcomes)
  \/ Tick

SpecCrowd == InitCrowd /\ [][NextCrowd]_vars

\* ------------------------------------------------------------------------
\* Reading the state
\* ------------------------------------------------------------------------
CurrentStore == StoreView(conversations, arrays, timestamps)

StoredHistory(c) == IF c \in DOMAIN conversations THEN arrays[conversations[c]] ELSE <<>>

HistoryIn(view, c) == IF c \in DOMAIN view.history THEN view.history[c] ELSE <<>>

\* the cap that applies to a cycle: 30 once a tool was executed, else 20
CapOf(h) == IF h.executed # <<>> THEN HistoryCapWithTools ELSE HistoryCapNoTools

HasUserTurnOf(hist, cyc) ==
  \E i \in 1..Len(hist) : hist[i].role = "user" /\ hist[i].cyc = cyc

IsFinalAssistantTurnOf(m, cyc) ==
  m.role = "assistant" /\ m.cyc = cyc /\ m.tool_calls = <<>>

Failed(out) == out # NoError

AllRetryableFailures(log) ==
  \A i \in 1..Len(log) : Failed(log[i]) /\ IsRetryableError(log[i])

\* ------------------------------------------------------------------------
\* C1
\* ------------------------------------------------------------------------
\* C1: for a non-empty message id, shouldProcessMessage returns false exactly
\* when the id was last let through at most MESSAGE_DEDUP_TTL_MS ago; the first
\* call, and a call after the window has elapsed, return true and record the
\* time of the call; a rejected call leaves the recorded time as it was (the
\* window is not extended). An absent or empty id is let through and not
\* recorded.
DedupIdempotence ==
  dedupCall.n > 0 =>
    LET id == dedupCall.id
        hasId == id # Undefined /\ id # ""
        dup == /\ hasId
               /\ dedupCall.prev > 0
               /\ dedupCall.at - dedupCall.prev <= MESSAGE_DEDUP_TTL_MS
    IN /\ dedupCall.ret = ~dup
       /\ hasId => /\ id \in DOMAIN processedMessageIds
                   /\ processedMessageIds[id] = (IF dup THEN dedupCall.prev ELSE dedupCall.at)
                   /\ acceptedAt[id] = processedMessageIds[id]
       /\ ~hasId => id \notin DOMAIN processedMessageIds

\* an id that was let through, then rejected, is let through again
DedupReaccepted ==
  /\ dedupCall.id = "m1"
  /\ dedupCall.ret
  /\ dedupCall.prev > 0
  /\ dedupCall.rejected >= 1

\* ------------------------------------------------------------------------
\* C2
\* ------------------------------------------------------------------------
\* C2: a cycle started with a message id that is a duplicate (let through at
\* most MESSAGE_DEDUP_TTL_MS earlier) returns at once: no LLM request, no tool
\* execution, no send attempt, and the store holds the same histories and
\* timestamps as when the handler was entered.
DuplicateIsSilent ==
  \A p \in Procs :
    LET h == handler[p]
    IN h.expectDup =>
         /\ h.pc = "done"
         /\ h.outcome = "returned"
         /\ h.llmRequests = <<>>
         /\ h.executed = <<>>
         /\ h.caller = "none"
         /\ h.sendLog = <<>>
         /\ h.delivered = <<>>
         /\ CurrentStore = h.storeBefore

DuplicateRejected ==
  \E p \in Procs : handler[p].expectDup /\ handler[p].skipped = "duplicate"

WithoutExpired(view, t) ==
  LET gone == {c \in DOMAIN view.timestamp : t - view.timestamp[c] > CONVERSATION_TTL_MS}
  IN [history |-> MapDelete(view.history, gone),
      timestamp |-> MapDelete(view.timestamp, gone)]

NoLLMToolOrSend(h) ==
  /\ h.llmRequests = <<>>
  /\ h.executed = <<>>
  /\ h.caller = "none"
  /\ h.sendLog = <<>>
  /\ h.delivered = <<>>

\* C4 as stated: a message whose parsed text is empty or whitespace-only ends
\* the cycle with the store exactly as it was on entry, no LLM call and no
\* send.
EmptyInputLeavesStoreUntouched ==
  \A p \in Procs :
    LET h == handler[p]
    IN h.blank => /\ h.pc = "done"
                  /\ NoLLMToolOrSend(h)
                  /\ CurrentStore = h.storeBefore

\* C4: a message whose parsed text is empty or whitespace-only ends the cycle
\* with no LLM call, no tool execution and no send, and creates or changes no
\* history and no timestamp; the only store effect is that of the cleanup that
\* precedes the parse, which deletes the chats whose timestamp is more than
\* CONVERSATION_TTL_MS old.
EmptyInputOnlyCleansUp ==
  \A p \in Procs :
    LET h == handler[p]
    IN h.blank => /\ h.pc = "done"
                  /\ h.outcome = "returned"
                  /\ NoLLMToolOrSend(h)
                  /\ CurrentStore = WithoutExpired(h.storeBefore, now)

\* a blank message arrives when a chat has expired
EmptyInputAfterExpiry ==
  \E p \in Procs :
    /\ handler[p].blank
    /\ handler[p].skipped = "empty"
    /\ DOMAIN handler[p].storeBefore.timestamp # DOMAIN timestamps

\* ------------------------------------------------------------------------
\* C5
\* ------------------------------------------------------------------------
HandlerStep(p) ==
  \/ Parse(p)
  \/ StartLLM(p)
  \/ LLM1Return(p)
  \/ ToolStep(p)
  \/ LLM2Return(p)
  \/ SendAttempt(p)
  \/ Backoff(p)

Running(h) == h.pc \notin {"idle", "done"}

\* steps sendMessageWithRetry can still take
SendBudget(h) == 2 * (h.maxRetries - h.attempt) + (IF h.pc = "send" THEN 2 ELSE 1)

ApologyBudget == 2 * DefaultMaxRetries + 1

\* an upper bound of the steps the invocation can still take
StepsLeft(h) ==
  CASE h.pc \in {"send", "backoff"} /\ h.caller = "reply" -> SendBudget(h) + ApologyBudget
    [] h.pc \in {"send", "backoff"} -> SendBudget(h)
    [] h.pc = "llm2" -> 2 * ApologyBudget
    [] h.pc = "tools" -> 2 * ApologyBudget + (Len(h.toolCalls) - h.toolIdx + 1)
    [] h.pc = "llm1" -> 2 * ApologyBudget + LongCalls + 1
    [] h.pc = "history" -> 2 * ApologyBudget + LongCalls + 2
    [] h.pc = "parse" -> 2 * ApologyBudget + LongCalls + 3
    [] OTHER -> 0

\* C5: whatever the store, the LLM, the tools and the send operation do, an
\* invocation of handleMessageReceive never ends by throwing, can always take
\* its next step until it has returned, and every step brings it closer to
\* returning (the number of steps left strictly decreases), so it terminates
\* and completes normally.
HandlerNeverThrows ==
  /\ [](\A p \in Procs :
          /\ handler[p].outcome # "threw"
          /\ handler[p].thrown = NoError
          /\ handler[p].pc = "done" => handler[p].outcome = "returned"
          /\ Running(handler[p]) => ENABLED HandlerStep(p))
  /\ [][\A p \in Procs :
          (Running(handler[p]) /\ handler'[p] # handler[p]) =>
             /\ StepsLeft(handler'[p]) < StepsLeft(handler[p])
             /\ StepsLeft(handler'[p]) >= 0]_vars

\* the reply and then the apology fail on every attempt, and the handler returns
ReplyAndApologyFailed ==
  \E p \in Procs :
    /\ handler[p].pc = "done"
    /\ handler[p].outcome = "returned"
    /\ handler[p].replyFailed
    /\ handler[p].caller = "apology"
    /\ Len(handler[p].sendLog) = DefaultMaxRetries
    /\ \A i \in 1..Len(handler[p].sendLog) : Failed(handler[p].sendLog[i])

\* ------------------------------------------------------------------------
\* C6
\* ------------------------------------------------------------------------
\* C6: a cycle makes at most two LLM requests; the first carries the tool
\* definitions and the second does not; every tool execution happens after
\* exactly one LLM request was made and runs a call of the first response, in
\* order; once the second request is made no tool is executed any more, even
\* when the second response contains tool calls.
AtMostOneToolRound ==
  \A p \in Procs :
    LET h == handler[p]
    IN /\ Len(h.llmRequests) <= 2
       /\ \A i \in 1..Len(h.llmRequests) : h.llmRequests[i].tools = (i = 1)
       /\ Len(h.executed) <= Len(h.toolCalls)
       /\ \A i \in 1..Len(h.executed) :
            /\ h.executed[i].llmCalls = 1
            /\ h.executed[i].call = h.toolCalls[i]
       /\ Len(h.llmRequests) = 2 => Len(h.executed) = Len(h.toolCalls)
       /\ h.secondToolCalls > 0 => /\ Len(h.llmRequests) = 2
                                   /\ Len(h.executed) = Len(h.toolCalls)

\* the second response asked for a tool and the reply was delivered all the same
SecondResponseToolCallsIgnored ==
  \E p \in Procs :
    /\ handler[p].secondToolCalls > 0
    /\ handler[p].pc = "done"
    /\ handler[p].delivered = <<"final">>
    /\ Len(handler[p].executed) > 1

\* ------------------------------------------------------------------------
\* C7
\* ------------------------------------------------------------------------
\* C7: while every answer so far was a retryable failure and fewer than
\* maxRetries invocations were made, sendMessageWithRetry goes on to the next
\* invocation; when k retryable failures (1 <= k < maxRetries) are followed by
\* a success it returns normally with the text delivered once, after exactly
\* k + 1 invocations: nothing is invoked after the success.
RetryThenSucceed ==
  \A p \in Procs :
    LET h == handler[p]
        n == Len(h.sendLog)
    IN /\ \A i \in 1..(n - 1) : Failed(h.sendLog[i])
       /\ (AllRetryableFailures(h.sendLog) /\ n < h.maxRetries) =>
             /\ h.pc \in {"send", "backoff"}
             /\ h.attempt = (IF h.pc = "send" THEN n + 1 ELSE n)
       /\ (n >= 2 /\ ~Failed(h.sendLog[n])) =>
             /\ AllRetryableFailures(SubSeq(h.sendLog, 1, n - 1))
             /\ n <= h.maxRetries
             /\ h.pc = "done"
             /\ h.outcome = "returned"
             /\ h.thrown = NoError
             /\ h.delivered = <<h.text>>

\* two retryable failures, then success on the third of four attempts
SucceededOnThirdAttempt ==
  \E p \in Procs :
    /\ handler[p].pc = "done"
    /\ handler[p].outcome = "returned"
    /\ handler[p].maxRetries = DefaultMaxRetries + 1
    /\ Len(handler[p].sendLog) = DefaultMaxRetries
    /\ ~Failed(handler[p].sendLog[DefaultMaxRetries])

\* ------------------------------------------------------------------------
\* C8
\* ------------------------------------------------------------------------
\* C8 as stated: whenever every invocation of the send operation failed,
\* sendMessageWithRetry ends by raising LarkAPIError with the last failure as
\* its cause after exactly maxRetries invocations.
ExhaustionAfterAnyFailures ==
  \A p \in Procs :
    LET h == handler[p]
        n == Len(h.sendLog)
    IN (h.pc = "done" /\ \A i \in 1..n : Failed(h.sendLog[i])) =>
         /\ h.outcome = "threw"
         /\ h.thrown.class = "LarkAPIError"
         /\ n = h.maxRetries
         /\ h.thrown.cause = <<h.sendLog[n]>>

\* C8: for every maxRetries >= 1, if every invocation of the send operation
\* fails with a retryable error, sendMessageWithRetry raises LarkAPIError with
\* the last failure as its cause after exactly maxRetries invocations; it never
\* makes more than maxRetries invocations, and it raises earlier only when the
\* last failure is classified non-retryable.
RetryExhaustion ==
  \A p \in Procs :
    LET h == handler[p]
        n == Len(h.sendLog)
    IN /\ n <= h.maxRetries
       /\ (h.maxRetries >= 1 /\ AllRetryableFailures(h.sendLog) /\ n = h.maxRetries) =>
             /\ h.pc = "done"
             /\ h.outcome = "threw"
       /\ (h.pc = "done" /\ h.outcome = "threw") =>
             /\ n >= 1
             /\ \A i \in 1..n : Failed(h.sendLog[i])
             /\ h.thrown.class = "LarkAPIError"
             /\ h.thrown.cause = <<h.sendLog[n]>>
             /\ n = h.maxRetries \/ ~IsRetryableError(h.sendLog[n])
             /\ AllRetryableFailures(h.sendLog) => n = h.maxRetries

\* four retryable failures out of four attempts
ExhaustedAllAttempts ==
  \E p \in Procs :
    /\ handler[p].outcome = "threw"
    /\ handler[p].maxRetries = MaxRetriesBound
    /\ Len(handler[p].sendLog) = MaxRetriesBound
    /\ AllRetryableFailures(handler[p].sendLog)

\* ------------------------------------------------------------------------
\* C9
\* ------------------------------------------------------------------------
\* C9: a failure classified non-retryable is the last invocation: the
\* delivery failure is raised with it as the cause and no sleep follows it.
\* Every retryable failure that leaves attempts unused is followed by one
\* sleep, of 1000 ms after the first failure and twice the previous sleep after
\* each later one, and the next invocation comes only after that sleep.
AbortOrBackoff ==
  \A p \in Procs :
    LET h == handler[p]
        n == Len(h.sendLog)
        s == Len(h.sleeps)
    IN /\ \A i \in 1..n :
            (Failed(h.sendLog[i]) /\ ~IsRetryableError(h.sendLog[i])) =>
               /\ i = n
               /\ s = n - 1
               /\ h.pc = "done"
               /\ h.outcome = "threw"
               /\ h.thrown = DeliveryFailure(h.sendLog[n])
       /\ \A i \in 1..s : h.sleeps[i] = (IF i = 1 THEN BackoffBaseMs ELSE 2 * h.sleeps[i - 1])
       /\ s = Cardinality({i \in 1..n : /\ Failed(h.sendLog[i])
                                        /\ IsRetryableError(h.sendLog[i])
                                        /\ i < h.maxRetries})
       /\ h.pc = "backoff" => s = n /\ n < h.maxRetries
       /\ h.pc = "send" => s = n /\ h.attempt = n + 1

\* a retryable failure, one sleep, then a non-retryable failure ends it
AbortedOnSecondAttempt ==
  \E p \in Procs :
    /\ handler[p].outcome = "threw"
    /\ handler[p].maxRetries = MaxRetriesBound
    /\ Len(handler[p].sendLog) = 2
    /\ ~IsRetryableError(handler[p].sendLog[2])
    /\ handler[p].sleeps = <<BackoffBaseMs>>

\* ------------------------------------------------------------------------
\* C10
\* ------------------------------------------------------------------------
PersistedBeforeReply(h) ==
  (h.caller = "reply" \/ h.replyFailed) =>
     /\ h.persisted # <<>>
     /\ StoredHistory(h.event.chat_id) = h.persisted[1]
     /\ h.event.chat_id \in DOMAIN timestamps

ToolMessageLinked(seq, i) ==
  \E j \in 1..(i - 1) :
    /\ seq[j].role = "assistant"
    /\ \E k \in 1..Len(seq[j].tool_calls) : seq[j].tool_calls[k].id = seq[i].tool_call_id

AllToolMessagesLinked(seq) ==
  \A i \in 1..Len(seq) : seq[i].role = "tool" => ToolMessageLinked(seq, i)

\* C11 as stated: in the stored history of every chat, trimmed or not, and in
\* every message window sent to the LLM, each tool message is preceded within
\* that sequence by an assistant message whose tool_calls names its
\* tool_call_id.
ToolMessageLinkage ==
  /\ \A c \in DOMAIN conversations : AllToolMessagesLinked(StoredHistory(c))
  /\ \A p \in Procs :
       \A i \in 1..Len(handler[p].llmRequests) :
         AllToolMessagesLinked(handler[p].llmRequests[i].window)

\* ------------------------------------------------------------------------
\* C12
\* ------------------------------------------------------------------------
\* C12 as stated: once the first response carried tool calls, the cycle leaves
\* the tool loop only with every tool call executed and the second LLM request
\* made; a call with an empty name or with argument text that does not parse
\* only yields a textual error result and never sends the cycle to the
\* apology path.
ToolFailuresStayInLoop ==
  \A p \in Procs :
    LET h == handler[p]
    IN (h.toolCalls # <<>> /\ h.pc # "tools") =>
         /\ Len(h.executed) = Len(h.toolCalls)
         /\ Len(h.llmRequests) = 2
         /\ \A i \in 1..Len(h.executed) :
              h.executed[i].call.name = "" => h.executed[i].remote = FALSE

\* ------------------------------------------------------------------------
\* C13
\* ------------------------------------------------------------------------
\* positions of hist holding an assistant message of cycle cyc that carries
\* tool calls
ToolCallTurnsOf(hist, cyc) ==
  {i \in 1..Len(hist) : /\ hist[i].cyc = cyc
                        /\ hist[i].role = "assistant"
                        /\ hist[i].tool_calls # <<>>}

ToolTurnsOf(hist, cyc) ==
  {i \in 1..Len(hist) : hist[i].cyc = cyc /\ hist[i].role = "tool"}

\* C13 as stated: a cycle whose first response carried n >= 1 tool calls has
\* appended n + 3 messages when it persists (user turn, one assistant message
\* with the tool calls, n tool messages, the final assistant message); when
\* nothing of the cycle was trimmed away the stored history shows exactly one
\* assistant message with tool calls and n tool messages of that cycle.
ToolRoundAppendsNPlus3 ==
  \A p \in Procs :
    LET h == handler[p]
        n == Len(h.toolCalls)
        stored == StoredHistory(h.event.chat_id)
    IN (h.persisted # <<>> /\ n >= 1) =>
         /\ h.appended = n + 3
         /\ h.appended <= HistoryCapWithTools =>
              /\ Cardinality(ToolCallTurnsOf(stored, h.cyc)) = 1
              /\ Cardinality(ToolTurnsOf(stored, h.cyc)) = n

\* ------------------------------------------------------------------------
\* C14
\* ------------------------------------------------------------------------
\* C14: when the first response carries exactly one tool call (with arguments
\* that parse), the tool loop ends with exactly one executor invocation and
\* the second LLM request made, and no third request follows; when the cycle
\* then persists it has appended exactly four messages, which are the last
\* four of the stored history: the user turn, the assistant message carrying
\* that tool call, the tool message naming its id, the final assistant turn.
ScenarioOneToolCall ==
  \A p \in Procs :
    LET h == handler[p]
        stored == StoredHistory(h.event.chat_id)
        k == Len(stored)
    IN Len(h.toolCalls) = 1 =>
         /\ Len(h.llmRequests) <= 2
         /\ Len(h.executed) <= 1
         /\ (h.pc # "tools" /\ FunctionArgs(h.toolCalls[1].arguments) # "SyntaxError") =>
               /\ Len(h.llmRequests) = 2
               /\ Len(h.executed) = 1
               /\ h.executed[1].call = h.toolCalls[1]
         /\ h.persisted # <<>> =>
               /\ h.appended = 4
               /\ k >= 4
               /\ \A i \in (k - 3)..k : stored[i].cyc = h.cyc
               /\ stored[k - 3].role = "user"
               /\ stored[k - 2].role = "assistant"
               /\ stored[k - 2].tool_calls = h.toolCalls
               /\ stored[k - 1].role = "tool"
               /\ stored[k - 1].tool_call_id = h.toolCalls[1].id
               /\ stored[k - 1].content = ExecuteToolCall(h.toolCalls[1].name, h.executed[1].args)
               /\ IsFinalAssistantTurnOf(stored[k], h.cyc)

\* the reply of a one-tool-call cycle was delivered
OneToolCallAnswered ==
  \E p \in Procs :
    /\ Len(handler[p].toolCalls) = 1
    /\ handler[p].persisted # <<>>
    /\ handler[p].pc = "done"
    /\ handler[p].delivered = <<"final">>

\* ------------------------------------------------------------------------
\* C15
\* ------------------------------------------------------------------------
\* a cycle on a chat without history that got an answer without tool calls and
\* delivered it at the first attempt
PlainCycleOnNewChat(h) ==
  /\ h.pc = "done"
  /\ h.persisted # <<>>
  /\ h.event.chat_id \notin DOMAIN h.storeBefore.history
  /\ h.toolCalls = <<>>
  /\ h.caller = "reply"
  /\ h.sendLog = <<NoError>>

\* C15: a cycle on a chat with no prior history whose LLM response carries no
\* tool calls and whose reply is delivered at the first attempt has made
\* exactly one LLM request (with the tool definitions), one send call and no
\* executor invocation, and leaves as the chat's stored history exactly the
\* user turn followed by the assistant turn holding the non-empty text that
\* was delivered.
ScenarioNoToolCall ==
  \A p \in Procs :
    LET h == handler[p]
        stored == StoredHistory(h.event.chat_id)
    IN PlainCycleOnNewChat(h) =>
         /\ Len(h.llmRequests) = 1
         /\ h.executed = <<>>
         /\ Len(h.delivered) = 1
         /\ h.delivered[1] # ""
         /\ h.outcome = "returned"
         /\ Len(stored) = 2
         /\ stored[1].role = "user"
         /\ stored[1].cyc = h.cyc
         /\ stored[2] = AssistantMessage(h.delivered[1], <<>>, h.cyc)

\* scenario A happened, with the answer of the LLM itself as the reply
NewChatAnswered ==
  \E p \in Procs : PlainCycleOnNewChat(handler[p]) /\ handler[p].delivered = <<"answer">>

\* ------------------------------------------------------------------------
\* C16  Independent chats
\* ------------------------------------------------------------------------
\* the chats other than the one the invocation p serves
OtherChats(h) == Chats \ {h.event.chat_id}

\* no turn pushed by the running or finished invocation h lies in the stored
\* history of a chat other than its own
OwnTurnsOnly(h) ==
  \A d \in OtherChats(h) :
    \A i \in 1..Len(StoredHistory(d)) : StoredHistory(d)[i].cyc # h.cyc

\* C16 as stated: whatever the interleaving, the turns of a cycle are stored
\* under its own chat only, and no step of a cycle on one chat changes the
\* history stored for the other chat.
ChatsNeverInterfere ==
  /\ [](\A p \in Procs : handler[p].cyc > 0 => OwnTurnsOnly(handler[p]))
  /\ [][\A p \in Procs :
          (handler'[p] # handler[p] /\ handler'[p].cyc > 0)
            => \A d \in OtherChats(handler'[p]) : StoredHistory(d)' = StoredHistory(d)]_vars

\* C16 (amended): whatever the interleaving, the turns of a cycle are stored
\* under its own chat only, and a step of a cycle on one chat leaves the
\* history stored for the other chat as it was, except that the cleanup at
\* the start of the cycle deletes it when it has been idle for longer than
\* the conversation TTL.
ChatsInterfereOnlyByExpiry ==
  /\ [](\A p \in Procs : handler[p].cyc > 0 => OwnTurnsOnly(handler[p]))
  /\ [][\A p \in Procs :
          (handler'[p] # handler[p] /\ handler'[p].cyc > 0)
            => \A d \in OtherChats(handler'[p]) :
                 \/ StoredHistory(d)' = StoredHistory(d)
                 \/ /\ handler[p].pc \in {"idle", "done"}
                    /\ d \in ExpiredChats(timestamps, now, CONVERSATION_TTL_MS)
                    /\ d \notin DOMAIN conversations']_vars

\* witness: both chats hold turns of cycles whose steps were interleaved: the
\* cycle on c2 began while the one on c1 was waiting for the LLM, and both
\* persisted their histories
InterleavedCyclesStored ==
  /\ handler[1].cyc = 1 /\ handler[2].cyc = 2
  /\ handler[1].persisted # <<>> /\ handler[2].persisted # <<>>
  /\ HistoryIn(handler[2].storeBefore, "c1") # HistoryIn(handler[1].storeBefore, "c1")
  /\ HasUserTurnOf(StoredHistory("c1"), 1)
  /\ HasUserTurnOf(StoredHistory("c2"), 2)

\* ------------------------------------------------------------------------
\* C17  Fail open without an identifier
\* ------------------------------------------------------------------------
MissingId(id) == id = Undefined \/ id = ""

\* C17: every call of shouldProcessMessage with an absent or empty identifier
\* returns true, however many calls went before, and leaves the dedup map as
\* it was; the map never holds an entry for such an identifier.
FailOpenWithoutId ==
  /\ [](/\ \A id \in DOMAIN processedMessageIds : ~MissingId(id)
        /\ (dedupCall.n > 0 /\ MissingId(dedupCall.id)) => dedupCall.ret)
  /\ [][(dedupCall'.n = dedupCall.n + 1 /\ MissingId(dedupCall'.id))
          => processedMessageIds' = processedMessageIds]_vars

\* witness: after a duplicate was rejected and an expired entry is waiting to
\* be swept, a third or later call with the empty identifier is let through
EmptyIdLetThroughAgain ==
  /\ dedupCall.n >= 3
  /\ dedupCall.id = ""
  /\ dedupCall.ret
  /\ dedupCall.rejected >= 1
  /\ \E id \in DOMAIN processedMessageIds :
       now - processedMessageIds[id] > MESSAGE_DEDUP_TTL_MS

\* ------------------------------------------------------------------------
\* C18  The key handed to the dedup guard
\* ------------------------------------------------------------------------
\* C18 as stated: the dedup guard of a cycle is called with the event id of
\* the delivery when the delivery carries one, and with the message id only
\* when it carries none.
DedupKeyPrefersEventId ==
  \A p \in Procs :
    LET h == handler[p]
    IN h.cyc > 0 =>
         h.dedupKey = IF MissingId(h.event.event_id)
                      THEN h.event.message_id
                      ELSE h.event.event_id

\* ------------------------------------------------------------------------
\* C19  An LLM failure takes the error-reply path
\* ------------------------------------------------------------------------
\* the error the catch block received was thrown by the catch around an LLM call
LLMFailed(h) ==
  /\ h.cyc > 0
  /\ h.error.class \in {"LLMError", "ResourcePackageError", "APIRateLimitError"}

\* C19: once the first or the second LLM call of a cycle has failed, the
\* cycle has made exactly the LLM calls and tool executions made up to the
\* failure and makes no more, setHistory is never called, and the one apology
\* text chosen for the error goes through the retrying sender: at the end of
\* the cycle between one and three send attempts were made, all with that
\* text, and it was delivered at most once.
LLMFailureTakesErrorReplyPath ==
  \A p \in Procs :
    LET h == handler[p]
    IN LLMFailed(h) =>
         /\ IF h.toolCalls = <<>>
            THEN Len(h.llmRequests) = 1 /\ h.executed = <<>>
            ELSE Len(h.llmRequests) = 2 /\ Len(h.executed) = Len(h.toolCalls)
         /\ h.persisted = <<>>
         /\ h.caller = "apology"
         /\ h.text = UserErrorMessage(h.error)
         /\ h.text \in {"apology_llm", "apology_quota", "apology_rate_limit"}
         /\ h.pc \in {"send", "backoff", "done"}
         /\ h.pc = "done" =>
              /\ h.outcome = "returned"
              /\ Len(h.sendLog) \in 1..DefaultMaxRetries
              /\ \/ h.delivered = <<h.text>> /\ h.sendLog[Len(h.sendLog)] = NoError
                 \/ h.delivered = <<>> /\ \A i \in 1..Len(h.sendLog) : h.sendLog[i] # NoError

\* witness: the follow-up LLM call failed after a tool round and the apology
\* was delivered on the second send attempt
FollowUpFailureApologised ==
  \E p \in Procs :
    LET h == handler[p]
    IN /\ LLMFailed(h)
       /\ h.toolCalls # <<>>
       /\ h.pc = "done"
       /\ Len(h.sendLog) = 2
       /\ h.delivered = <<"apology_llm">>

\* ------------------------------------------------------------------------
\* C20  The apology is chosen by the kind of the error
\* ------------------------------------------------------------------------
ApologyTexts ==
  {"apology_quota", "apology_rate_limit", "apology_llm", "apology_lark_api",
   "apology_generic"}

QuotaCodes == {"1113", "1308", "1309"}

ThrottlingCodes == {"1302", "1303", "1305"}

\* the error as it was raised, before the catch around an LLM call wrapped it
RaisedError(h) == IF LLMFailed(h) THEN h.error.cause[1] ELSE h.error

ErrorPrefixes == {"Error: ", "Error executing tool: "}

\* the ways a call of executeToolCall can go
ToolCallKind(name) ==
  IF name = "" THEN "empty name"
  ELSE IF name \notin {"im.ok", "im.err", "im.throw"} THEN "unregistered"
  ELSE IF name = "im.ok" THEN "success"
  ELSE IF name = "im.err" THEN "business error"
  ELSE "thrown exception"

\* C22: whatever the tool name, the arguments and the behaviour of the remote
\* operation, executeToolCall returns a text and the tool loop goes on to the
\* next call or to the follow-up request: no error of a tool execution
\* reaches the catch block. The text of an unregistered name, an empty name,
\* a reported business error and a thrown exception begins with "Error";
\* the text of a success is the content of the remote operation.
ExecutorAlwaysReturnsText ==
  \A p \in Procs :
    LET h == handler[p]
    IN /\ h.error.class \notin {"ToolExecutionError", "ValidationError"}
       /\ h.pc = "tools" => h.error = NoError /\ Len(h.executed) = h.toolIdx - 1
       /\ (h.toolCalls # <<>> /\ h.pc # "tools") => Len(h.executed) = Len(h.toolCalls)
       /\ \A k \in 1..Len(h.executed) :
            LET e == h.executed[k]
            IN /\ e.call = h.toolCalls[k]
               /\ Len(e.result) >= 2
               /\ IF ToolCallKind(e.call.name) = "success"
                  THEN e.result[1] = "" /\ e.result[2] = "content"
                  ELSE e.result[1] \in ErrorPrefixes

\* witness: a call whose remote operation threw was answered with a text and
\* the cycle went on to deliver the final reply
ThrownToolErrorAnswered ==
  \E p \in Procs :
    LET h == handler[p]
    IN /\ Len(h.executed) = 1
       /\ h.executed[1].call.name = "im.throw"
       /\ h.executed[1].result[1] = "Error executing tool: "
       /\ h.delivered = <<"final">>

\* ------------------------------------------------------------------------
\* C23  A tool name that is not in the catalog
\* ------------------------------------------------------------------------
\* C23: the execution of a (non-empty) tool name that is not registered
\* returns the text "Error: Tool <name> not found", does not reach the remote
\* operation, and does not raise: the loop goes on.
UnregisteredToolNotFound ==
  \A p \in Procs :
    LET h == handler[p]
    IN \A k \in 1..Len(h.executed) :
         LET e == h.executed[k]
         IN ToolCallKind(e.call.name) = "unregistered" =>
              /\ e.result = <<"Error: ", "Tool ", e.call.name, " not found">>
              /\ ~e.remote
              /\ h.pc = "tools" => h.error = NoError
              /\ h.error.class \notin {"ToolExecutionError", "ValidationError"}

\* witness: the unregistered tool wiki.none was called with arguments, and
\* the follow-up request carries the not-found text as its last message
NotFoundTextSentToLLM ==
  \E p \in Procs :
    LET h == handler[p]
    IN /\ Len(h.executed) = 1
       /\ h.executed[1].call.name = "wiki.none"
       /\ h.executed[1].args = "obj_q1"
       /\ Len(h.llmRequests) = 2
       /\ LET w == h.llmRequests[2].window
          IN w[Len(w)].content = <<"Error: ", "Tool ", "wiki.none", " not found">>

\* ------------------------------------------------------------------------
\* C24  Tool-argument normalization
\* ------------------------------------------------------------------------
\* C24: a tool call whose arguments are the JSON text of an object a and a
\* tool call whose arguments are the object a are both executed with a;
\* absent arguments are executed as the empty object.
ArgumentsNormalized ==
  \A p \in Procs :
    LET h == handler[p]
    IN \A k \in 1..Len(h.executed) :
         LET e == h.executed[k]
             raw == e.call.arguments
         IN /\ \A a \in ArgObjects :
                 (raw = ArgString(JsonStringify(a)) \/ raw = ArgObject(a)) => e.args = a
            /\ raw = ArgAbsent => e.args = "obj_empty"
            /\ ToolCallKind(e.call.name) = "success" => e.result[4] = e.args

\* witness: in one tool round the same object arrived as JSON text and as an
\* object, and both calls were executed with it
SameObjectBothForms ==
  \E p \in Procs :
    LET h == handler[p]
    IN /\ Len(h.executed) = 2
       /\ h.executed[1].call.arguments.type = "string"
       /\ h.executed[2].call.arguments.type = "object"
       /\ h.executed[1].args = "obj_ids"
       /\ h.executed[2].args = "obj_ids"
       /\ h.executed[1].result = h.executed[2].result

\* ------------------------------------------------------------------------
\* C25  Mention stripping
\* ------------------------------------------------------------------------
\* the positions of text covered by a mention token and the whitespace after
\* it: position i is covered from the start s of a mention when s carries the
\* literal, a digit follows, and every token from s + 1 to i is a digit of the
\* leading run of digits or whitespace directly after that run
CoveredByMention(text) ==
  {i \in 1..Len(text) :
     \E s \in 1..i :
       /\ text[s] = MentionLiteral
       /\ s < Len(text)
       /\ text[s + 1] \in Digits
       /\ \E d \in (s + 1)..Len(text) :
            /\ \A j \in (s + 1)..d : text[j] \in Digits
            /\ i <= d \/ \A j \in (d + 1)..i : text[j] \in Whitespace}

RECURSIVE KeepFrom(_, _, _)
\* the tokens of text from position i on whose position is not in drop
KeepFrom(text, i, drop) ==
  IF i > Len(text) THEN <<>>
  ELSE (IF i \in drop THEN <<>> ELSE <<text[i]>>) \o KeepFrom(text, i + 1, drop)

UserTurnsOf(hist, cyc) ==
  SelectSeq(hist, LAMBDA m : m.role = "user" /\ m.cyc = cyc)

\* C25: once a cycle has pushed its user turn, that turn, as it lies in the
\* history and as the LLM receives it, is the parsed message text without the
\* tokens of its mentions (literal, digits, whitespace directly after) and
\* with every other token in place; a persisted history holds the same turn.
MentionsStripped ==
  \A p \in Procs :
    LET h == handler[p]
        expected == KeepFrom(h.parsedText, 1, CoveredByMention(h.parsedText))
    IN /\ (h.history # NoRef /\ Len(h.llmRequests) >= 1) =>
            /\ UserTurnsOf(arrays[h.history], h.cyc) = <<UserMessage(expected, h.cyc)>>
            /\ LET w == h.llmRequests[1].window
               IN w[Len(w)] = UserMessage(expected, h.cyc)
       /\ h.persisted # <<>> =>
            UserTurnsOf(StoredHistory(h.event.chat_id), h.cyc) = <<UserMessage(expected, h.cyc)>>

\* witness: "@_user_12 H" was received and the stored user turn is "H"
MentionRemovedFromStoredTurn ==
  \E p \in Procs :
    LET h == handler[p]
    IN /\ h.parsedText = <<MentionLiteral, "1", "2", " ", "H">>
       /\ h.persisted # <<>>
       /\ UserTurnsOf(StoredHistory("c1"), h.cyc) = <<UserMessage(<<"H">>, h.cyc)>>


\* ------------------------------------------------------------------------
\* The store called directly, as the storage tests and the bot call it
\* ------------------------------------------------------------------------
StoreHistories ==
  {<<>>, <<UserMessage(<<"H">>, 0)>>,
   <<UserMessage(<<"H">>, 0), AssistantMessage("answer", <<>>, 0)>>}

StoreTtls == {0, MESSAGE_DEDUP_TTL_MS, CONVERSATION_TTL_MS}

StoreCallRecord(op, chatId) ==
  [NoStoreCall EXCEPT !.op = op, !.chatId = chatId, !.at = now,
                      !.before = StoreView(conversations, arrays, timestamps),
                      !.n = storeCall.n + 1]

StoreGetHistory(chatId) ==
  /\ storeCall.n < MaxStoreCalls
  /\ storeCall' = [StoreCallRecord("getHistory", chatId) EXCEPT
                     !.history = GetHistory(conversations, arrays, chatId)]
  /\ UNCHANGED <<now, processedMessageIds, conversations, timestamps, arrays, handler,
                 cycles, ticks, acceptedAt, dedupCall,
                 toolFilter, redis>>

\* faulty variant: setHistory leaves the timestamp of the chat alone
StoreSetHistoryStale(chatId, messages) ==
  /\ storeCall.n < MaxStoreCalls
  /\ LET ref == FreshRef(conversations, handler)
     IN /\ conversations' = MapSet(conversations, chatId, ref)
        /\ arrays' = Collect([arrays EXCEPT ![ref] = messages], conversations', handler)
  /\ storeCall' = [StoreCallRecord("setHistory", chatId) EXCEPT !.messages = messages]
  /\ UNCHANGED <<now, processedMessageIds, timestamps, handler, cycles, ticks, acceptedAt,
                 dedupCall,
                 toolFilter, redis>>

\* setHistory(chatId, messages) with an array the caller has just built
StoreSetHistory(chatId, messages) ==
  /\ storeCall.n < MaxStoreCalls
  /\ LET ref == FreshRef(conversations, handler)
     IN /\ conversations' = MapSet(conversations, chatId, ref)
        /\ timestamps' = MapSet(timestamps, chatId, now)
        /\ arrays' = Collect([arrays EXCEPT ![ref] = messages], conversations', handler)
  /\ storeCall' = [StoreCallRecord("setHistory", chatId) EXCEPT !.messages = messages]
  /\ UNCHANGED <<now, processedMessageIds, handler, cycles, ticks, acceptedAt, dedupCall,
                 toolFilter, redis>>

StoreSetTimestamp(chatId) ==
  /\ storeCall.n < MaxStoreCalls
  /\ timestamps' = MapSet(timestamps, chatId, now)
  /\ storeCall' = StoreCallRecord("setTimestamp", chatId)
  /\ UNCHANGED <<now, processedMessageIds, conversations, arrays, handler, cycles, ticks,
                 acceptedAt, dedupCall,
                 toolFilter, redis>>

StoreDeleteHistory(chatId) ==
  /\ storeCall.n < MaxStoreCalls
  /\ conversations' = MapDelete(conversations, {chatId})
  /\ timestamps' = MapDelete(timestamps, {chatId})
  /\ arrays' = Collect(arrays, conversations', handler)
  /\ storeCall' = StoreCallRecord("deleteHistory", chatId)
  /\ UNCHANGED <<now, processedMessageIds, handler, cycles, ticks, acceptedAt, dedupCall,
                 toolFilter, redis>>

StoreCleanup(ttlMs) ==
  /\ storeCall.n < MaxStoreCalls
  /\ LET swept == Cleanup(conversations, timestamps, now, ttlMs)
     IN /\ conversations' = swept.conversations
        /\ timestamps' = swept.timestamps
        /\ arrays' = Collect(arrays, conversations', handler)
        /\ storeCall' = [StoreCallRecord("cleanup", Undefined) EXCEPT
                           !.ttlMs = ttlMs, !.cleaned = swept.cleaned]
  /\ UNCHANGED <<now, processedMessageIds, handler, cycles, ticks, acceptedAt, dedupCall,
                 toolFilter, redis>>

StoreTick ==
  /\ TickBy(TickSteps, MaxStoreTicks)
  /\ UNCHANGED <<processedMessageIds, conversations, timestamps, arrays, handler, cycles,
                 acceptedAt, dedupCall, storeCall,
                 toolFilter, redis>>

NextStore ==
  \/ \E c \in Chats : StoreGetHistory(c)
  \/ \E c \in Chats, m \in StoreHistories : StoreSetHistory(c, m)
  \/ \E c \in Chats : StoreSetTimestamp(c)
  \/ \E c \in Chats : StoreDeleteHistory(c)
  \/ \E ttlMs \in StoreTtls : StoreCleanup(ttlMs)
  \/ StoreTick

SpecStore == Init /\ [][NextStore]_vars

\* C26: Store cleanup. When cleanup(ttlMs) has run at time t, the chats it
\* removed are exactly those whose timestamp was more than ttlMs before t, with
\* their history and their timestamp; the history and the timestamp of every
\* other chat are what they were; the count returned is the number removed.
CleanupRemovesExactlyExpired ==
  storeCall.op = "cleanup" =>
    LET before == storeCall.before
        after == StoreView(conversations, arrays, timestamps)
        gone == {c \in DOMAIN before.timestamp :
                   storeCall.at - before.timestamp[c] > storeCall.ttlMs}
    IN /\ DOMAIN after.timestamp = (DOMAIN before.timestamp) \ gone
       /\ DOMAIN after.history = (DOMAIN before.history) \ gone
       /\ \A c \in DOMAIN after.timestamp : after.timestamp[c] = before.timestamp[c]
       /\ \A c \in DOMAIN after.history : after.history[c] = before.history[c]
       /\ storeCall.cleaned = Cardinality(gone)

\* a cleanup that removed one chat and kept another whose age is exactly the TTL
CleanupRemovedOneKeptOne ==
  /\ storeCall.op = "cleanup"
  /\ storeCall.cleaned = 1
  /\ \E c \in DOMAIN timestamps : /\ now - timestamps[c] = storeCall.ttlMs
                                  /\ storeCall.ttlMs > 0
                                  /\ c \in DOMAIN conversations


\* the chats other than c keep their history and their timestamp
OthersUntouched(before, after, c) ==
  /\ (DOMAIN after.history) \ {c} = (DOMAIN before.history) \ {c}
  /\ (DOMAIN after.timestamp) \ {c} = (DOMAIN before.timestamp) \ {c}
  /\ \A d \in (DOMAIN before.history) \ {c} : after.history[d] = before.history[d]
  /\ \A d \in (DOMAIN before.timestamp) \ {c} : after.timestamp[d] = before.timestamp[d]

\* the last call removed chat c from the store
RemovedByLastCall(c) ==
  \/ storeCall.op = "deleteHistory" /\ storeCall.chatId = c
  \/ /\ storeCall.op = "cleanup"
     /\ c \in DOMAIN storeCall.before.timestamp
     /\ storeCall.at - storeCall.before.timestamp[c] > storeCall.ttlMs

\* C28: Store read/write contract. getHistory of a chat that was never
\* written, or that the call before removed, returns the empty sequence and
\* changes nothing; setHistory(c, m) makes m the history of c and the time of
\* the write its timestamp, and leaves the history and the timestamp of every
\* other chat as they were; getHistory(c) right after setHistory(c, m) returns m.
StoreReadWriteContract ==
  [][storeCall'.n = storeCall.n + 1 =>
       LET call == storeCall'
           c == call.chatId
           after == StoreView(conversations', arrays', timestamps')
       IN /\ call.op = "getHistory" =>
               /\ after = call.before
               /\ c \notin DOMAIN call.before.history => call.history = <<>>
               /\ RemovedByLastCall(c) => call.history = <<>>
               /\ (storeCall.op = "setHistory" /\ storeCall.chatId = c) =>
                     call.history = storeCall.messages
          /\ call.op = "setHistory" =>
               /\ c \in DOMAIN after.history /\ after.history[c] = call.messages
               /\ c \in DOMAIN after.timestamp /\ after.timestamp[c] = call.at
               /\ OthersUntouched(call.before, after, c)]_vars

\* chat c2, unknown at first, was written after the clock had moved and then
\* read back, while chat c1 kept its older timestamp
WrittenThenRead ==
  /\ storeCall.op = "getHistory"
  /\ storeCall.chatId = "c2"
  /\ Len(storeCall.history) = 2
  /\ "c1" \in DOMAIN timestamps
  /\ timestamps["c2"] > timestamps["c1"]


\* C27: Conversation-count cap. Once the cleanup step of a cycle has run,
\* the store holds at most MAX_CONVERSATIONS conversations.
RetainedWithinCap ==
  \A p \in Procs :
    (handler[p].cyc > 0 /\ handler[p].skipped = "no" /\ ~handler[p].cleanupFailed
       /\ handler[p].pc # "idle") =>
      Cardinality(DOMAIN handler[p].storeAfterCleanup.history) <= MAX_CONVERSATIONS


\* name begins with the characters of prefix, one by one
BeginsWith(name, prefix) ==
  \A k \in 1..Len(prefix) : k <= Len(name) /\ name[k] = prefix[k]

\* the tool at position i of the catalog passes the allow-list and the deny-list
Offered(call, i) ==
  /\ \/ call.enabledToolPrefixes = <<>>
     \/ \E j \in DOMAIN call.enabledToolPrefixes :
          BeginsWith(call.tools[i], call.enabledToolPrefixes[j])
  /\ \A j \in DOMAIN call.disabledTools : call.disabledTools[j] # call.tools[i]

OfferedPositions(call) == {i \in DOMAIN call.tools : Offered(call, i)}

\* C29: Tool catalog filter. The function definitions are the catalog tools
\* that pass the allow-list (empty, or one of its prefixes begins the name) and
\* are not in the deny-list, one definition per such tool, in catalog order; a
\* configuration that leaves no tool gives the empty list.
CatalogFiltered ==
  toolFilter.n > 0 =>
    LET defs == toolFilter.functionDefinitions
        kept == OfferedPositions(toolFilter)
    IN /\ Len(defs) = Cardinality(kept)
       /\ \A i \in kept :
            LET k == Cardinality({j \in kept : j <= i})
            IN defs[k] = [type |-> "function", name |-> toolFilter.tools[i]]

\* a catalog of three tools of which the allow-list drops one and the
\* deny-list another, the allowed prefix being shorter than the names
OneDroppedByEachList ==
  /\ toolFilter.n > 0
  /\ Len(toolFilter.tools) = 3
  /\ Len(toolFilter.functionDefinitions) = 1
  /\ toolFilter.enabledToolPrefixes = <<(<<"i", "m", ".">>)>>
  /\ Len(toolFilter.disabledTools) = 1
  /\ \E i \in 1..3 : ~BeginsWith(toolFilter.tools[i], <<"i", "m", ".">>)
  /\ \E i \in 1..3 : /\ BeginsWith(toolFilter.tools[i], <<"i", "m", ".">>)
                     /\ toolFilter.tools[i] = toolFilter.disabledTools[1]


\* C30: No partial write is observable under a same-chat race. The history
\* that getHistory has handed to one invocation holds no turn of another
\* invocation that has not called setHistory.
NoPartialWriteObserved ==
  \A p, q \in Procs :
    (/\ p # q
     /\ handler[q].pc = "history"
     /\ handler[p].cyc > 0
     /\ handler[p].event.chat_id = handler[q].event.chat_id
     /\ handler[p].persisted = <<>>) =>
      LET returned == arrays[handler[q].history]
      IN \A i \in 1..Len(returned) : returned[i].cyc # handler[p].cyc


\* ------------------------------------------------------------------------
\* C31  A failed tool execution does not end the cycle
\* ------------------------------------------------------------------------
\* the executed calls of h whose execution failed
FailedExecutions(h) ==
  {k \in 1..Len(h.executed) : ToolCallKind(h.executed[k].call.name) # "success"}

\* C31: in a cycle where the execution of a tool failed (name not found,
\* empty name, reported error, thrown exception) the failure is a tool message
\* with the error text, which the follow-up request carries; once every call
\* is executed the follow-up request is made; the cycle reaches the catch
\* block only for a reason of its own (argument text that does not parse, a
\* failed follow-up call or store write, a reply that could not be delivered),
\* never with a tool error; and a cycle that ends without an error has
\* delivered the follow-up's text and nothing else.
ToolFailureNonFatal ==
  \A p \in Procs :
    LET h == handler[p]
    IN FailedExecutions(h) # {} =>
         /\ \A k \in FailedExecutions(h) :
              LET e == h.executed[k]
              IN /\ e.result[1] \in ErrorPrefixes
                 /\ Len(h.llmRequests) = 2 =>
                      \E i \in 1..Len(h.llmRequests[2].window) :
                         LET m == h.llmRequests[2].window[i]
                         IN /\ m.role = "tool"
                            /\ m.tool_call_id = e.call.id
                            /\ m.content = e.result
         /\ Len(h.executed) = Len(h.toolCalls) => Len(h.llmRequests) = 2
         /\ h.error = NoError => h.caller # "apology"
         /\ h.error # NoError =>
              /\ h.error.class \notin {"ToolExecutionError", "ValidationError"}
              /\ \/ Len(h.executed) < Len(h.toolCalls)
                 \/ Len(h.llmRequests) = 2 /\ h.persisted = <<>>
                 \/ h.replyFailed
         /\ (h.pc = "done" /\ h.error = NoError) => h.delivered = <<"final">>

\* witness: a round with an unregistered name, an empty name, a reported error
\* and a thrown exception ended with the follow-up's text delivered
MixedFailuresThenReply ==
  \E p \in Procs :
    LET h == handler[p]
    IN /\ Cardinality(FailedExecutions(h)) = 4
       /\ Len(h.executed) = 5
       /\ h.pc = "done"
       /\ h.error = NoError
       /\ h.delivered = <<"final">>


\* ------------------------------------------------------------------------
\* C32  Lazy purge of the dedup map
\* ------------------------------------------------------------------------
\* the ids let through at most one dedup window before time t
AcceptedWithinWindow(t) ==
  {id \in DOMAIN acceptedAt : t - acceptedAt[id] <= MESSAGE_DEDUP_TTL_MS}

\* C32 as stated: right after every call of shouldProcessMessage the dedup
\* map holds no entry recorded more than the dedup window before the call.
PurgedAfterEveryCall ==
  dedupCall.n > 0 =>
    \A id \in DOMAIN processedMessageIds :
      dedupCall.at - processedMessageIds[id] <= MESSAGE_DEDUP_TTL_MS

\* C32: right after every call of shouldProcessMessage that carries an
\* identifier the dedup map holds no entry recorded more than the dedup window
\* before the call: its entries are exactly the ids let through within the
\* last window, each with the time it was let through. A call without an
\* identifier returns before the purge and leaves expired entries in the map.
PurgedAfterKeyedCall ==
  (dedupCall.n > 0 /\ ~MissingId(dedupCall.id)) =>
    /\ \A id \in DOMAIN processedMessageIds :
         dedupCall.at - processedMessageIds[id] <= MESSAGE_DEDUP_TTL_MS
    /\ DOMAIN processedMessageIds = AcceptedWithinWindow(dedupCall.at)
    /\ \A id \in DOMAIN processedMessageIds : processedMessageIds[id] = acceptedAt[id]

\* witness: the call for m2 purged the expired entry of m1
ExpiredEntryPurged ==
  /\ dedupCall.n > 0
  /\ dedupCall.id = "m2"
  /\ dedupCall.at - acceptedAt["m1"] > MESSAGE_DEDUP_TTL_MS
  /\ DOMAIN processedMessageIds = {"m2"}


\* ------------------------------------------------------------------------
\* C33  A reply that cannot be delivered
\* ------------------------------------------------------------------------
\* C33: when sendMessageWithRetry gives up on the final reply, the error it
\* throws is a delivery failure that the catch block answers with one apology,
\* sent through sendMessageWithRetry with the default number of attempts; if
\* the apology cannot be delivered either, the handler returns without an
\* error; a cycle never starts a third delivery sequence.
DeliveryFailureApologisedOnce ==
  \A p \in Procs :
    LET h == handler[p]
    IN /\ h.sequences <= 2
       /\ h.replyFailed =>
            /\ h.persisted # <<>>
            /\ h.error.class = "LarkAPIError"
            /\ h.caller = "apology"
            /\ h.text = UserErrorMessage(h.error)
            /\ h.maxRetries = DefaultMaxRetries
            /\ h.sequences = 2
            /\ h.pc \in {"send", "backoff", "done"}
            /\ h.pc = "done" => h.outcome = "returned" /\ h.thrown = NoError
            /\ Len(h.delivered) <= 1

\* witness: reply and apology both used up their attempts; the handler
\* returned with nothing delivered
ReplyAndApologyExhausted ==
  \E p \in Procs :
    LET h == handler[p]
    IN /\ h.replyFailed
       /\ h.pc = "done"
       /\ h.delivered = <<>>
       /\ Len(h.sendLog) = DefaultMaxRetries


\* ------------------------------------------------------------------------
\* C34  Concurrent deliveries of one message
\* ------------------------------------------------------------------------
\* the invocation of h went past the dedup guard
PassedGuard(h) == h.cyc > 0 /\ h.skipped # "duplicate"

\* C34: of the invocations that carry the same non-empty message id and run
\* side by side (hence within one dedup window), at most one goes past the
\* dedup guard, the id having been let through within the window by that one
\* or by an earlier one; every other one makes no LLM request, executes no
\* tool and starts no delivery.
OneDeliveryPassesGuard ==
  \A p, q \in Procs :
    LET h == handler[p]
        g == handler[q]
        id == h.event.message_id
    IN (p # q /\ h.cyc > 0 /\ g.cyc > 0 /\ ~MissingId(id) /\ g.event.message_id = id) =>
         /\ ~(PassedGuard(h) /\ PassedGuard(g))
         /\ id \in DOMAIN acceptedAt /\ now - acceptedAt[id] <= MESSAGE_DEDUP_TTL_MS
         /\ ~PassedGuard(g) =>
              /\ g.llmRequests = <<>>
              /\ g.executed = <<>>
              /\ g.sequences = 0
              /\ g.pc = "done" /\ g.outcome = "returned"

\* witness: while one invocation for m2 waits for the LLM, a second delivery
\* of m2 has been turned away
DuplicateRejectedMeanwhile ==
  \E p, q \in Procs :
    /\ p # q
    /\ handler[p].event.message_id = "m2" /\ handler[q].event.message_id = "m2"
    /\ handler[p].pc = "llm1"
    /\ handler[q].skipped = "duplicate"


\* ------------------------------------------------------------------------
\* C39  The id stays recorded when the cycle fails
\* ------------------------------------------------------------------------
\* C39: the id of a message that went past the dedup guard is in the dedup
\* map, with the time it was let through, from the first step of its cycle
\* and whatever the cycle does afterwards (error path, nothing delivered); a
\* delivery of an id that was let through at most one dedup window earlier is
\* turned away.
IdRecordedThroughFailure ==
  \A p \in Procs :
    LET h == handler[p]
        id == h.event.message_id
    IN /\ (PassedGuard(h) /\ ~MissingId(id)) =>
            /\ id \in DOMAIN processedMessageIds
            /\ id \in DOMAIN acceptedAt
            /\ processedMessageIds[id] = acceptedAt[id]
            /\ now - processedMessageIds[id] <= MESSAGE_DEDUP_TTL_MS
       /\ (h.cyc > 0 /\ h.expectDup) => ~PassedGuard(h)

\* witness: the cycle of m2 failed and delivered nothing, not even the
\* apology, and the redelivery of m2 was turned away
RedeliveryAfterFailureSuppressed ==
  \E p, q \in Procs :
    /\ p # q
    /\ handler[p].event.message_id = "m2" /\ handler[q].event.message_id = "m2"
    /\ PassedGuard(handler[p])
    /\ handler[p].pc = "done"
    /\ handler[p].error # NoError
    /\ handler[p].delivered = <<>>
    /\ handler[q].skipped = "duplicate"
    /\ handler[q].cyc > handler[p].cyc


\* ------------------------------------------------------------------------
\* C35  A failed cycle and the stored history
\* ------------------------------------------------------------------------
\* the store as the cycle of h found it, expired chats left aside
StoreAtStart(h) == IF h.cleanupFailed THEN h.storeBefore ELSE h.storeAfterCleanup

\* C35 as stated: when a cycle has ended in the catch block without calling
\* setHistory, the stored history of its chat is the one the cycle found.
FailedCycleLeavesHistory ==
  \A p \in Procs :
    LET h == handler[p]
    IN (PassedGuard(h) /\ h.pc = "done" /\ h.error # NoError /\ h.persisted = <<>>) =>
         StoredHistory(h.event.chat_id) = HistoryIn(StoreAtStart(h), h.event.chat_id)


\* ------------------------------------------------------------------------
\* C36  Tools kept away from the LLM
\* ------------------------------------------------------------------------
\* is the tool among the function definitions offered to the LLM
OfferedToLLM(toolName) ==
  \E i \in 1..Len(toolFilter.functionDefinitions) :
     toolFilter.functionDefinitions[i].name = NameChars(toolName)

\* C36 as stated: the remote operation is only reached for tools that are
\* among the function definitions the filter left.
OnlyOfferedToolsInvoked ==
  \A p \in Procs :
    \A k \in 1..Len(handler[p].executed) :
      handler[p].executed[k].remote => OfferedToLLM(handler[p].executed[k].call.name)


\* ------------------------------------------------------------------------
\* C37  At most one delivery per cycle
\* ------------------------------------------------------------------------
\* C37: a cycle delivers at most one text. What it has delivered is the reply,
\* and then the cycle is over without an error and without an apology, or it
\* is the apology, which is only ever sent when no reply was delivered.
AtMostOneDelivery ==
  \A p \in Procs :
    LET h == handler[p]
    IN /\ Len(h.delivered) <= 1
       /\ h.caller = "apology" =>
            /\ h.error # NoError
            /\ h.delivered \in {<<>>, <<UserErrorMessage(h.error)>>}
       /\ (h.caller = "reply" /\ h.delivered # <<>>) =>
            /\ h.delivered = <<h.text>>
            /\ h.error = NoError /\ ~h.replyFailed
            /\ h.pc = "done" /\ h.sequences = 1

\* witness: the reply was refused on every attempt and the apology was
\* delivered in its place
ApologyDeliveredInsteadOfReply ==
  \E p \in Procs :
    LET h == handler[p]
    IN /\ h.replyFailed
       /\ h.pc = "done"
       /\ h.delivered = <<UserErrorMessage(h.error)>>
       /\ h.sequences = 2


\* ------------------------------------------------------------------------
\* C38  No empty user turn
\* ------------------------------------------------------------------------
\* C38: every user turn that lies in a history or in a request to the LLM has
\* content that is neither empty nor whitespace only.
NoEmptyUserTurn ==
  /\ \A r \in DOMAIN arrays :
       \A i \in 1..Len(arrays[r]) :
         arrays[r][i].role = "user" => ~IsEmptyInput(arrays[r][i].content)
  /\ \A p \in Procs :
       \A k \in 1..Len(handler[p].llmRequests) :
         LET w == handler[p].llmRequests[k].window
         IN \A i \in 1..Len(w) :
              w[i].role = "user" => ~IsEmptyInput(w[i].content)


\* ------------------------------------------------------------------------
\* RedisStorage called directly: history and timestamp keys that expire
\* REDIS_EX_SECONDS after they were set, and the set of chat ids
\* ------------------------------------------------------------------------
\* setHistory: both keys are set with { ex: 3600 }, the id is added to the set
RedisSetHistory(chatId, messages) ==
  /\ storeCall.n < MaxStoreCalls
  /\ LET expiresAt == now + REDIS_EX_SECONDS * 1000
     IN redis' = [history |-> MapSet(redis.history, chatId,
                                     [value |-> messages, expiresAt |-> expiresAt]),
                  timestamp |-> MapSet(redis.timestamp, chatId,
                                       [value |-> now, expiresAt |-> expiresAt]),
                  chatids |-> redis.chatids \cup {chatId}]
  /\ storeCall' = [StoreCallRecord("setHistory", chatId) EXCEPT !.messages = messages]
  /\ UNCHANGED <<now, processedMessageIds, conversations, timestamps, arrays, handler,
                 cycles, ticks, acceptedAt, dedupCall, toolFilter>>

\* setTimestamp: only the timestamp key is set
RedisSetTimestamp(chatId, timestamp) ==
  /\ storeCall.n < MaxStoreCalls
  /\ redis' = [redis EXCEPT !.timestamp =
                 MapSet(@, chatId, [value |-> timestamp,
                                    expiresAt |-> now + REDIS_EX_SECONDS * 1000])]
  /\ storeCall' = StoreCallRecord("setTimestamp", chatId)
  /\ UNCHANGED <<now, processedMessageIds, conversations, timestamps, arrays, handler,
                 cycles, ticks, acceptedAt, dedupCall, toolFilter>>

\* deleteHistory: del of both keys, srem of the id
RedisDeleteHistory(chatId) ==
  /\ storeCall.n < MaxStoreCalls
  /\ redis' = [history |-> MapDelete(redis.history, {chatId}),
               timestamp |-> MapDelete(redis.timestamp, {chatId}),
               chatids |-> redis.chatids \ {chatId}]
  /\ storeCall' = StoreCallRecord("deleteHistory", chatId)
  /\ UNCHANGED <<now, processedMessageIds, conversations, timestamps, arrays, handler,
                 cycles, ticks, acceptedAt, dedupCall, toolFilter>>

\* cleanup: of the members of the set, those whose timestamp key is read with
\* a truthy value older than ttlMs are deleted; a missing key reads as null
RedisCleanup(ttlMs) ==
  /\ storeCall.n < MaxStoreCalls
  /\ LET gone == {chatId \in redis.chatids :
                    /\ chatId \in DOMAIN redis.timestamp
                    /\ redis.timestamp[chatId].value # 0
                    /\ now - redis.timestamp[chatId].value > ttlMs}
     IN /\ redis' = [history |-> MapDelete(redis.history, gone),
                     timestamp |-> MapDelete(redis.timestamp, gone),
                     chatids |-> redis.chatids \ gone]
        /\ storeCall' = [StoreCallRecord("cleanup", Undefined) EXCEPT
                           !.ttlMs = ttlMs, !.cleaned = Cardinality(gone)]
  /\ UNCHANGED <<now, processedMessageIds, conversations, timestamps, arrays, handler,
                 cycles, ticks, acceptedAt, dedupCall, toolFilter>>

\* time passes; the keys whose expiry time is reached are gone, the set has
\* no expiry
RedisTick ==
  /\ TickBy(TickSteps, MaxStoreTicks)
  /\ redis' = [redis EXCEPT
                 !.history = MapDelete(@, {c \in DOMAIN @ : @[c].expiresAt <= now'}),
                 !.timestamp = MapDelete(@, {c \in DOMAIN @ : @[c].expiresAt <= now'})]
  /\ UNCHANGED <<processedMessageIds, conversations, timestamps, arrays, handler, cycles,
                 acceptedAt, dedupCall, storeCall, toolFilter>>

NextRedis ==
  \/ \E c \in Chats, m \in StoreHistories : RedisSetHistory(c, m)
  \/ \E c \in Chats : RedisSetTimestamp(c, now)
  \/ \E c \in Chats : RedisDeleteHistory(c)
  \/ \E ttlMs \in StoreTtls : RedisCleanup(ttlMs)
  \/ RedisTick

SpecRedis == Init /\ [][NextRedis]_vars

\* C40: Networked-store index does not leak. When cleanup has just run (no
\* time has passed since), every chat id that is still in the chat-id set has
\* a live history key or a live timestamp key.
IndexDoesNotLeak ==
  (storeCall.op = "cleanup" /\ storeCall.at = now) =>
    \A chatId \in redis.chatids :
      chatId \in DOMAIN redis.history \/ chatId \in DOMAIN redis.timestamp

====
